---- MODULE Spec2Model ----
(***************************************************************************)
(* The PDF entry points of the HEO invoice system as a state machine:      *)
(*   generate_pdf_bytes         (app.py)                                   *)
(*   generate_professional_pdf  (frontend/utils/pdf_utils.py)              *)
(*   generate_pdf               (streamlit-invoice-app/utils/pdf_utils.py) *)
(*                                                                         *)
(* Python values are tagged records, text is a sequence of one-character   *)
(* strings, and a float is a fixed-point number of hundredths (12.50 is    *)
(* 1250).  The input sets hold only numbers whose products are whole       *)
(* hundredths and only texts with at most two fraction digits and no       *)
(* exponent, so that the fixed-point arithmetic is exact on them.          *)
(***************************************************************************)
EXTENDS Integers, Sequences, FiniteSets, TLC

(* ------------------------------ bounds -------------------------------- *)

\* Longest list of line items of an invoice record.
MaxItems == 2

(* --------------------------- Python values ---------------------------- *)

\* A key the mapping does not hold.
Absent == [k |-> "absent", n |-> 0, s |-> <<>>]
None == [k |-> "none", n |-> 0, s |-> <<>>]
\* int and float, both in hundredths.
PyInt(n) == [k |-> "int", n |-> n, s |-> <<>>]
PyFloat(n) == [k |-> "float", n |-> n, s |-> <<>>]
PyStr(s) == [k |-> "str", n |-> 0, s |-> s]

IsNum(v) == v.k \in {"int", "float"}

\* Python truth value: None, 0, 0.0 and "" are false.
Truthy(v) ==
    CASE v.k \in {"absent", "none"} -> FALSE
      [] IsNum(v) -> v.n # 0
      [] v.k = "str" -> v.s # <<>>
      [] OTHER -> TRUE

\* a or b
Or(a, b) == IF Truthy(a) THEN a ELSE b

\* d.get(key) and d.get(key, default)
Get(d, key) == IF d[key].k = "absent" THEN None ELSE d[key]
GetD(d, key, default) == IF d[key].k = "absent" THEN default ELSE d[key]

(* ------------------------------- text --------------------------------- *)

DigitChars == <<"0", "1", "2", "3", "4", "5", "6", "7", "8", "9">>
IsDigit(c) == \E i \in 1..10 : DigitChars[i] = c
DigitVal(c) == (CHOOSE i \in 1..10 : DigitChars[i] = c) - 1

Min(S) == CHOOSE x \in S : \A y \in S : x <= y
Max(S) == CHOOSE x \in S : \A y \in S : y <= x
Abs(n) == IF n < 0 THEN -n ELSE n

\* The k decimal digits of n.
DigitsOfWidth(n, k) == [i \in 1..k |-> DigitChars[((n \div (10 ^ (k - i))) % 10) + 1]]

\* The decimal digits of a natural number (of at most ten digits).
Digits(n) == DigitsOfWidth(n, 1 + Cardinality({e \in 1..9 : 10 ^ e <= n}))

\* The digits d spread over m places, every fourth place from the right a ",".
GroupTo(d, m) ==
    [j \in 1..m |->
        IF (m - j) % 4 = 3 THEN ","
        ELSE d[Len(d) - ((m - j) - ((m - j) \div 4))]]

\* The "," of the format specification: a separator every three digits.
Group(d) == GroupTo(d, Len(d) + ((Len(d) - 1) \div 3))

\* The two fraction digits of a number of hundredths.
Cents(a) == <<DigitChars[((a % 100) \div 10) + 1], DigitChars[(a % 10) + 1]>>

Sign(n) == IF n < 0 THEN <<"-">> ELSE <<>>

\* f"{x:,.2f}"
Format2(n) == Sign(n) \o Group(Digits(Abs(n) \div 100)) \o <<".">> \o Cents(Abs(n))

\* The fraction digits of the repr of a float: at least one, no trailing zero.
ReprFraction(c) == IF c[2] = "0" THEN <<c[1]>> ELSE c

\* repr of a float: the shortest text that reads back as the same number.
FloatRepr(n) ==
    Sign(n) \o Digits(Abs(n) \div 100) \o <<".">> \o ReprFraction(Cents(Abs(n)))

\* str(v)
Str(v) ==
    CASE v.k = "str" -> v.s
      [] v.k = "int" -> Sign(v.n) \o Digits(Abs(v.n) \div 100)
      [] v.k = "float" -> FloatRepr(v.n)
      [] OTHER -> <<"N", "o", "n", "e">>

\* The k-th smallest member of a set of numbers.
Nth(S, k) == CHOOSE x \in S : Cardinality({y \in S : y <= x}) = k

\* The characters of s at the positions in S, in order.
Pick(s, S) == [j \in 1..Cardinality(S) |-> s[Nth(S, j)]]

\* pat stands in s at position i.
Match(s, pat, i) ==
    i + Len(pat) - 1 <= Len(s) /\ SubSeq(s, i, i + Len(pat) - 1) = pat

\* The occurrences of pat that a scan of s from the left finds: one that
\* starts inside an occurrence already found does not count.
Found(s, pat) ==
    LET found[i \in 1..Len(s)] ==
            Match(s, pat, i) /\ \A j \in 1..(i - 1) : i - j < Len(pat) => ~found[j]
    IN  found

\* The positions of s outside the occurrences found.
Uncovered(s, pat, found) ==
    {c \in 1..Len(s) : ~\E i \in 1..c : c - i < Len(pat) /\ found[i]}

\* s.replace(pat, "")
Replace(s, pat) == Pick(s, Uncovered(s, pat, Found(s, pat)))

\* s between the first and the last of its positions ink.
Between(s, ink) == IF ink = {} THEN <<>> ELSE SubSeq(s, Min(ink), Max(ink))

\* s.strip()
Strip(s) == Between(s, {i \in 1..Len(s) : s[i] # " "})

\* The number a run of digits spells.
DigitsValue(d) ==
    LET V[i \in 0..Len(d)] == IF i = 0 THEN 0 ELSE 10 * V[i - 1] + DigitVal(d[i])
    IN  V[Len(d)]

AllDigits(d) == \A i \in 1..Len(d) : IsDigit(d[i])

\* The outcome of a conversion that may raise.
Ok(n) == [ok |-> TRUE, v |-> n, exc |-> "none"]
Raise(e) == [ok |-> FALSE, v |-> 0, exc |-> e]

\* The hundredths that the fraction digits fp spell.
Hundredths(fp) ==
    IF fp = <<>> THEN 0
    ELSE IF Len(fp) = 1 THEN 10 * DigitVal(fp[1])
    ELSE 10 * DigitVal(fp[1]) + DigitVal(fp[2])

\* The number with integer digits ip and fraction digits fp.
ParseParts(sign, ip, fp) ==
    IF AllDigits(ip) /\ AllDigits(fp) /\ Len(ip) + Len(fp) > 0
    THEN Ok(sign * (100 * DigitsValue(ip) + Hundredths(fp)))
    ELSE Raise("ValueError")

\* The unsigned text u, its points at the positions dots.
ParseUnsigned(sign, u, dots) ==
    IF dots = {} THEN ParseParts(sign, u, <<>>)
    ELSE IF Cardinality(dots) > 1 THEN Raise("ValueError")
    ELSE ParseParts(sign, SubSeq(u, 1, Min(dots) - 1), SubSeq(u, Min(dots) + 1, Len(u)))

\* The text t without blanks around it.
ParseSigned(t) ==
    IF t # <<>> /\ Head(t) \in {"-", "+"}
    THEN ParseUnsigned(IF Head(t) = "-" THEN -1 ELSE 1, Tail(t),
                       {i \in 1..(Len(t) - 1) : t[i + 1] = "."})
    ELSE ParseUnsigned(1, t, {i \in 1..Len(t) : t[i] = "."})

\* float(text): blanks around it are allowed, then a sign, digits and at most
\* one point with a digit on one side of it; anything else is a ValueError.
ParseFloat(text) == ParseSigned(Strip(text))

\* float(v)
Float(v) ==
    CASE IsNum(v) -> Ok(v.n)
      [] v.k = "str" -> ParseFloat(v.s)
      [] OTHER -> Raise("TypeError")

\* The product of two floats.
Mul(a, b) == (a * b) \div 100

(* ------------------------- invoice records ---------------------------- *)

s_A == <<"A">>
s_B == <<"B">>
s_C == <<"C">>
s_D == <<"D">>
s_abc == <<"a", "b", "c">>
s_2_50 == <<"2", ".", "5", "0">>
s_100_LE == <<"1", "0", "0", " ", "L", "E">>
s_LE == <<"L", "E">>
s_EGP == <<"E", "G", "P">>
s_x_LE == <<"x", "L", "E">>
\* Document types and titles, each written as one piece; an Arabic literal
\* is written as "ar:" and its English gloss.
s_Quotation == <<"Quotation Invoice">>
s_TaxInvoice == <<"Tax Invoice">>
s_Invoice == <<"Invoice">>
s_Invoice_ar == <<"ar:Invoice">>
s_Quotation_ar == <<"ar:Quotation">>
s_Commercial == <<"Commercial Invoice">>
s_Commercial_ar == <<"ar:Commercial">>
s_Proforma == <<"Proforma Invoice">>
s_Proforma_ar == <<"ar:Proforma">>

ItemKeys == {"description", "desc", "quantity", "qty", "price", "unit", "total", "code"}

\* A line item under the field names description/quantity/price ...
OldItem(d, q, p, t) ==
    [key \in ItemKeys |->
        CASE key = "description" -> d
          [] key = "quantity" -> q
          [] key = "price" -> p
          [] key = "total" -> t
          [] OTHER -> Absent]

\* ... and under the field names desc/qty/unit.
NewItem(d, q, p, t) ==
    [key \in ItemKeys |->
        CASE key = "desc" -> d
          [] key = "qty" -> q
          [] key = "unit" -> p
          [] key = "total" -> t
          [] OTHER -> Absent]

\* 2 x 50.00 with no total, under either naming; 1 x 75.00 with its total;
\* a quantity that is no number; a total that carries a currency marker.
ItemPlainOld == OldItem(PyStr(s_A), PyInt(200), PyFloat(5000), Absent)
ItemPlainNew == NewItem(PyStr(s_A), PyInt(200), PyFloat(5000), Absent)
ItemWithTotal == OldItem(PyStr(s_B), PyInt(100), PyFloat(7500), PyFloat(7500))
ItemBadQty == OldItem(PyStr(s_C), PyStr(s_abc), PyFloat(1000), Absent)
ItemMarkedTotal == OldItem(PyStr(s_D), PyInt(100), PyFloat(10000), PyStr(s_100_LE))

ItemSet == {ItemPlainOld, ItemPlainNew, ItemWithTotal, ItemBadQty, ItemMarkedTotal}

\* The lists of at most n line items.
ItemLists(n) == UNION {[1..m -> ItemSet] : m \in 0..n}

\* What a numeric field of the record may hold: nothing, null, the empty
\* text, a text that is no number, a number, a text that is a number.
NumFieldVals ==
    {Absent, None, PyStr(<<>>), PyStr(s_abc), PyFloat(500), PyStr(s_2_50)}

\* Records that vary the line items ...
ItemRecords ==
    [items : ItemLists(MaxItems),
     subtotal : {Absent, PyFloat(1000)},
     total : {Absent, PyFloat(10000), PyFloat(25000)},
     tax : {Absent, PyFloat(500)},
     discount : {Absent, PyFloat(300)},
     invoice_type : {Absent}]

\* ... and records that vary the totals fields.
TotalsRecords ==
    [items : {<<>>, <<ItemWithTotal>>, <<ItemMarkedTotal>>},
     subtotal : {Absent, PyFloat(1000), PyStr(s_abc)},
     total : {Absent, PyFloat(10000), PyFloat(25000), PyStr(s_abc)},
     tax : NumFieldVals,
     discount : NumFieldVals,
     invoice_type : {Absent}]

\* A line item whose total is a text that is no number and ends in a marker.
ItemTextTotal == OldItem(PyStr(s_C), PyInt(100), PyFloat(1000), PyStr(s_x_LE))

\* ... and records that vary the document type.
LayoutRecords ==
    [items : {<<>>, <<ItemPlainOld>>, <<ItemTextTotal>>},
     subtotal : {Absent},
     total : {Absent},
     tax : {Absent},
     discount : {Absent},
     invoice_type : {Absent, PyStr(<<>>), PyStr(s_Quotation), PyStr(s_TaxInvoice)}]

Records == ItemRecords \cup TotalsRecords \cup LayoutRecords

Languages == {"en", "ar"}

(* --------------------- text shaping and currency ---------------------- *)

\* A text on its way to the page: its characters and how many times the
\* reshaping and bidi reordering was applied to it.
Text(chars) == [chars |-> chars, shaped |-> 0]

\* A shaping that is applied whatever rtl says.
ShapeAlways(t, rtl, shaping) == [t EXCEPT !.shaped = @ + 1]

\* _shape_text_for_pdf(text, rtl): shapes only for rtl and only when both
\* arabic_reshaper and get_display were importable.
shape_text_for_pdf(t, rtl, shaping) ==
    IF rtl /\ shaping THEN [t EXCEPT !.shaped = @ + 1] ELSE t

\* local_s(t) of generate_pdf_bytes
local_s(t, lang, shaping) == shape_text_for_pdf(t, lang = "ar", shaping)

\* The outcome of a call of _shape_text_for_pdf.
ShapeOk(t) == [ok |-> TRUE, text |-> t, exc |-> "none"]
ShapeRaise(e) == [ok |-> FALSE, text |-> Text(<<>>), exc |-> e]

\* _shape_text_for_pdf of app.py on any value: the value is coerced with
\* str(); when the reshaping or reordering call raises, the coerced text is
\* returned as it is.
app_shape_text_for_pdf(v, rtl, shaping, fails) ==
    ShapeOk(IF rtl /\ shaping /\ fails THEN Text(Str(v))
            ELSE shape_text_for_pdf(Text(Str(v)), rtl, shaping))

\* _shape_text_for_pdf of streamlit-invoice-app/utils/pdf_utils.py: with rtl
\* its condition reads arabic_reshaper, a name its module never binds.
streamlit_shape_text_for_pdf(v, rtl) ==
    IF rtl THEN ShapeRaise("NameError") ELSE ShapeOk(Text(Str(v)))

\* The values the shaping functions are called with.
ShapeInputs ==
    {PyStr(<<>>), PyStr(s_A), PyStr(s_100_LE), PyStr(s_Invoice_ar), PyInt(200),
     PyInt(-300), PyFloat(5000), PyFloat(1250), None}

\* The formatted number, or the text as it is when float() did not take it.
FormatOrKeep(f, v) == IF f.ok THEN Format2(f.v) ELSE v

\* The text v reformatted when float() takes it without its commas.
Reformat(v) == FormatOrKeep(ParseFloat(Replace(v, <<",">>)), v)

\* The number text currency() emits for val: the markers LE and EGP are
\* removed, the blanks around the rest too, and the rest is reformatted.
CurrencyValue(val) == Reformat(Strip(Replace(Replace(Str(val), s_LE), s_EGP)))

\* The cell with number text v: v and the LE token, both shaped in Arabic.
CurrencyCell(v, lang, shaping) ==
    IF lang = "ar"
    THEN [value |-> shape_text_for_pdf(Text(v), TRUE, shaping),
          token |-> shape_text_for_pdf(Text(s_LE), TRUE, shaping)]
    ELSE [value |-> Text(v), token |-> Text(s_LE)]

\* currency(val)
currency(val, lang, shaping) == CurrencyCell(CurrencyValue(val), lang, shaping)

(* ------------------ generate_pdf_bytes: items mapping ----------------- *)

\* A value or the exception raised instead of it.
Val(v) == [ok |-> TRUE, val |-> v, exc |-> "none"]
Exc(e) == [ok |-> FALSE, val |-> None, exc |-> e]

ItemDesc(it) == Or(Or(Get(it, "description"), Get(it, "desc")), PyStr(<<>>))
\* A quantity read under the name quantity only.
ItemQtyNoAlias(it) == Or(Get(it, "quantity"), PyInt(0))
ItemQty(it) == Or(Or(Get(it, "quantity"), Get(it, "qty")), PyInt(0))
ItemUnit(it) == Or(Or(Get(it, "price"), Get(it, "unit")), PyInt(0))

\* float(qty or 0) * float(unit_price or 0): the first float() that raises
\* ends it.
Product(fq, fu) ==
    IF ~fq.ok THEN Exc(fq.exc)
    ELSE IF ~fu.ok THEN Exc(fu.exc)
    ELSE Val(PyFloat(Mul(fq.v, fu.v)))

\* it.get("total") or (float(qty or 0) * float(unit_price or 0))
ItemTotal(it) ==
    IF Truthy(Get(it, "total")) THEN Val(Get(it, "total"))
    ELSE Product(Float(Or(ItemQty(it), PyInt(0))), Float(Or(ItemUnit(it), PyInt(0))))

\* One pass of the items loop: the normalized item.
NormalizeItem(it) ==
    [code |-> Or(Get(it, "code"), PyStr(<<>>)),
     desc |-> ItemDesc(it),
     qty |-> ItemQty(it),
     unit |-> ItemUnit(it),
     total |-> ItemTotal(it).val]

\* The first item whose pass raises, or 0.
FirstOrZero(bad) == IF bad = {} THEN 0 ELSE Min(bad)
FirstRaising(items_in) ==
    FirstOrZero({i \in 1..Len(items_in) : ~ItemTotal(items_in[i]).ok})

(* ----------------------- generate_pdf_bytes: totals ------------------- *)

\* float(it.get("total", 0) or 0) of a normalized item
LineTotal(it) == Float(Or(it.total, PyInt(0)))

\* The sums of the line totals of the first i items.
SumTo(its) ==
    LET S[i \in 0..Len(its)] == IF i = 0 THEN 0 ELSE S[i - 1] + LineTotal(its[i]).v
    IN  S

\* The sum, or what the first float() that raises (those at bad) raised.
SumOrRaise(its, bad) ==
    IF bad # {} THEN LineTotal(its[Min(bad)]) ELSE Ok(SumTo(its)[Len(its)])

\* sum(float(it.get("total", 0) or 0) for it in items)
SumTotals(its) == SumOrRaise(its, {i \in 1..Len(its) : ~LineTotal(its[i]).ok})

\* float(invoice_data.get("subtotal") or sum(...)): the sum is not computed
\* when the record holds a subtotal.
SubtotalTry(data, its) ==
    IF Truthy(Get(data, "subtotal")) THEN Float(Get(data, "subtotal"))
    ELSE SumTotals(its)

\* float(invoice_data.get("total") or 0)
TotalTry(data) == Float(Or(Get(data, "total"), PyInt(0)))

\* The value of the first try block, or of the second when the first raised,
\* or 0.0 when both raised.
FirstOk(first, second) ==
    IF first.ok THEN first.v ELSE IF second.ok THEN second.v ELSE 0

\* The subtotal: the record's subtotal or else the sum of the line totals;
\* when that raises, the record's total or else 0; when that raises too, 0.
Subtotal(data, its) == FirstOk(SubtotalTry(data, its), TotalTry(data))

\* The value of a try block whose except clause gives 0.0.
OrZero(f) == IF f.ok THEN f.v ELSE 0

\* float(invoice_data.get(key, 0) or 0), or 0.0 when that raises.
FloatOrZero(data, key) == OrZero(Float(Or(GetD(data, key, PyInt(0)), PyInt(0))))

\* The tax and the discount from one shared try block: a value that raises
\* would leave both at 0.0.
TaxAndDiscountOneTry(data) ==
    IF Float(Or(GetD(data, "tax", PyInt(0)), PyInt(0))).ok
       /\ Float(Or(GetD(data, "discount", PyInt(0)), PyInt(0))).ok
    THEN [tax |-> FloatOrZero(data, "tax"), discount |-> FloatOrZero(data, "discount")]
    ELSE [tax |-> 0, discount |-> 0]

\* The tax and the discount, each from a try block of its own.
TaxAndDiscount(data) ==
    [tax |-> FloatOrZero(data, "tax"), discount |-> FloatOrZero(data, "discount")]

\* A net total that leaves the discount out.
NetTotalWithoutDiscount(sub, tx, disc) == sub + tx

\* net_total = subtotal + tax - discount
NetTotal(sub, tx, disc) == sub + tx - disc

\* The totals mapping: each amount as "LE" and the formatted number.
Totals(sub, tx, disc, net) ==
    [subtotal |-> PyStr(s_LE \o Format2(sub)),
     sales |-> PyStr(s_LE \o Format2(tx)),
     discount |-> PyStr(s_LE \o Format2(disc)),
     net |-> PyStr(s_LE \o Format2(net))]

(* ---------------------------- environment ----------------------------- *)

\* The structural steps of generate_pdf_bytes, in the order of the code.
Steps ==
    <<"header", "title", "client", "items", "totals", "net", "seller", "footer">>
StepSet == {Steps[i] : i \in 1..Len(Steps)}

\* Sizes that image introspection reports for the logo: width and height.
LogoSizes == {<<200, 100>>, <<100, 300>>, <<50, 0>>}

\* Every font and the logo on disk, PIL importable, and a toolkit none of
\* whose calls raises.
Equipped ==
    [roboto_reg |-> TRUE, roboto_bold |-> TRUE, tajawal |-> TRUE,
     register_fails |-> FALSE,
     logo_exists |-> TRUE, pil |-> TRUE, open_fails |-> FALSE,
     logo_size |-> <<200, 100>>, image_fails |-> FALSE,
     failing |-> {}]

\* Environments that differ from it in the font files and their registration,
FontEnvs ==
    {[Equipped EXCEPT !.roboto_reg = r, !.roboto_bold = b, !.tajawal = t,
                      !.register_fails = f] :
        r \in BOOLEAN, b \in BOOLEAN, t \in BOOLEAN, f \in BOOLEAN}

\* in the logo file, PIL and what opening and embedding the image does,
LogoEnvs ==
    {[Equipped EXCEPT !.logo_exists = x, !.pil = p, !.open_fails = o,
                      !.logo_size = z, !.image_fails = i] :
        x \in BOOLEAN, p \in BOOLEAN, o \in BOOLEAN, z \in LogoSizes,
        i \in BOOLEAN}

\* and in the structural steps whose toolkit call raises.
FaultEnvs == {[Equipped EXCEPT !.failing = F] : F \in SUBSET StepSet}

Environments == FontEnvs \cup LogoEnvs \cup FaultEnvs

\* The environments a call is explored in: all of them for the records that
\* vary the document type, the equipped one for those that vary the amounts.
EnvironmentsFor(d) == IF d \in LayoutRecords THEN Environments ELSE {Equipped}

(* ------------------------------ state --------------------------------- *)

VARIABLES
    reportlab_available,  \* app.py: "reportlab" in _installed_modules
    has_shaping,          \* arabic_reshaper and get_display are both not None
    fn,                   \* the entry point that is running
    pc,                   \* its position
    invoice_data,         \* its record argument
    out_lang,             \* its language argument ("ar" stands for rtl=True)
    items,                \* the normalized line items
    subtotal, tax, discount, net_total,
    elements,             \* the blocks added to the document so far
    result,               \* what the call gave its caller
    env,                  \* the files and toolkit behaviour the call meets
    font,                 \* FONT and FONTB of generate_pdf_bytes
    shape_arg,            \* the arguments of a call of _shape_text_for_pdf
    shape_ret             \* and its outcome

VARIABLES
    now,                  \* datetime.utcnow(), in days
    invoices,             \* the rows of the invoices table; the id is the index
    last,                 \* the last operation on the table and its outcome
    clients,              \* the rows of the clients table
    client_last           \* the last client creation and its outcome

VARIABLES
    canvas,               \* a reportlab canvas and the function drawing on it
    registry,             \* pdfmetrics: the registered fonts, name to file
    calls                 \* the render calls that run side by side

vars ==
    <<reportlab_available, has_shaping, fn, pc, invoice_data, out_lang, items,
      subtotal, tax, discount, net_total, elements, result, env, font,
      shape_arg, shape_ret,
      now, invoices, last, clients, client_last,
      canvas, registry, calls>>

\* The variables of the PDF entry points,
render_vars ==
    <<reportlab_available, has_shaping, fn, pc, invoice_data, out_lang, items,
      subtotal, tax, discount, net_total, elements, result, env, font,
      shape_arg, shape_ret>>

\* of the invoices table and of the clients table.
invoice_vars == <<now, invoices, last>>
client_vars == <<clients, client_last>>

\* of the calls that run side by side.
conc_vars == <<registry, calls>>

\* The variables the PDF entry points leave alone.
other_vars == <<invoice_vars, client_vars, canvas, conc_vars>>

\* The variables that only some of the entry points use.
call_vars == <<env, font, shape_arg, shape_ret>>

NoFont == [FONT |-> "none", FONTB |-> "none"]
NoShapeArg == [text |-> None, rtl |-> FALSE, fails |-> FALSE]
NoShapeRet == [ok |-> TRUE, text |-> Text(<<>>), exc |-> "none"]

NoResult == [kind |-> "none", bytes |-> <<>>, exc |-> "none", data |-> <<>>]
\* A bytes value: the pieces it is made of, none for b"".
Bytes(pieces) == [kind |-> "bytes", bytes |-> pieces, exc |-> "none", data |-> <<>>]
\* An exception that reached the caller.
Raised(e) == [kind |-> "exception", bytes |-> <<>>, exc |-> e, data |-> <<>>]

\* A text fallback that carries no record.
TextFallbackWithoutDump(heading, data) == Bytes(<<heading>>)

\* f"{heading}\n\n{json.dumps(invoice_data, ...)}".encode("utf-8"): the
\* heading line and the dump of the record data.
TextFallback(heading, data) ==
    [kind |-> "bytes", bytes |-> <<heading, "json">>, exc |-> "none",
     data |-> <<data>>]

EmptyRecord ==
    [items |-> <<>>, subtotal |-> Absent, total |-> Absent, tax |-> Absent,
     discount |-> Absent, invoice_type |-> Absent]

\* No operation on the invoices table yet.
NoLast ==
    [op |-> "none", up |-> TRUE, id |-> 0, status |-> "none", days |-> 0,
     outcome |-> "none", http |-> 0, given |-> <<>>, at |-> 0,
     changed |-> 0, again |-> FALSE, changed_before |-> 0]

\* No client creation yet.
NoClientLast ==
    [op |-> "none", name |-> "", email |-> "NULL", outcome |-> "none", id |-> 0,
     before |-> <<>>]

\* Empty tables.
InvoiceStart ==
    /\ now = 0
    /\ invoices = <<>>
    /\ last = NoLast

ClientStart ==
    /\ clients = <<>>
    /\ client_last = NoClientLast

\* A canvas nothing has drawn on.
NoCanvas ==
    [op |-> "none", pc |-> "idle", k |-> 0, entry |-> 0, depth |-> 0,
     fail |-> "none", n |-> 0, i |-> 0, page |-> 1, item_y |-> 0, rows |-> <<>>,
     total |-> [page |-> 0, y |-> 0]]

CanvasStart == canvas = NoCanvas

MaxCalls == 2
CallIds == 1..MaxCalls

\* A call that has not been made. rereg records that another call registered
\* a font of this call between this call's registration and its build.
NoCall ==
    [pc |-> "idle", k |-> 0, data |-> EmptyRecord, lang |-> "en", font |-> NoFont,
     totals |-> <<>>, elements |-> <<>>, used |-> <<>>, rereg |-> FALSE]

\* No font registered, no call made.
ConcStart ==
    /\ registry = [name \in {} |-> ""]
    /\ calls = [c \in CallIds |-> NoCall]

OtherStart == InvoiceStart /\ ClientStart /\ CanvasStart /\ ConcStart

Init ==
    /\ reportlab_available \in BOOLEAN
    /\ has_shaping \in BOOLEAN
    /\ fn = "none"
    /\ pc = "idle"
    /\ invoice_data = EmptyRecord
    /\ out_lang = "en"
    /\ items = <<>>
    /\ subtotal = 0
    /\ tax = 0
    /\ discount = 0
    /\ net_total = 0
    /\ elements = <<>>
    /\ result = NoResult
    /\ env = Equipped
    /\ font = NoFont
    /\ shape_arg = NoShapeArg
    /\ shape_ret = NoShapeRet
    /\ OtherStart

\* The caller takes the result; the next call starts from fresh locals.
Return ==
    /\ pc = "done"
    /\ fn' = "none"
    /\ pc' = "idle"
    /\ invoice_data' = EmptyRecord
    /\ out_lang' = "en"
    /\ items' = <<>>
    /\ subtotal' = 0
    /\ tax' = 0
    /\ discount' = 0
    /\ net_total' = 0
    /\ elements' = <<>>
    /\ result' = NoResult
    /\ env' = Equipped
    /\ font' = NoFont
    /\ shape_arg' = NoShapeArg
    /\ shape_ret' = NoShapeRet
    /\ UNCHANGED <<reportlab_available, has_shaping>>
    /\ UNCHANGED other_vars

Finish(r) ==
    /\ pc' = "done"
    /\ result' = r

(* --------------------------- document blocks -------------------------- *)

Block(tag, rows) == [tag |-> tag, rows |-> rows]

\* A static label: the literal, passed through local_s in an Arabic render.
Label(lit, lang, shaping) ==
    IF lang = "ar" THEN local_s(Text(<<lit>>), lang, shaping) ELSE Text(<<lit>>)

\* The rows of the items table below its header row.
ItemRows(its, lang, shaping) ==
    [i \in 1..Len(its) |->
        [idx |-> i,
         code |-> its[i].code,
         desc |-> IF lang = "ar" THEN local_s(Text(Str(its[i].desc)), lang, shaping)
                  ELSE Text(Str(Or(its[i].desc, PyStr(<<>>)))),
         qty |-> Str(its[i].qty),
         unit |-> currency(its[i].unit, lang, shaping),
         total |-> currency(its[i].total, lang, shaping)]]

\* The rows of the totals table.
TotalsRows(totals, lang, shaping) ==
    <<[label |-> Label("Sub-Total:", lang, shaping),
       cell |-> currency(totals.subtotal, lang, shaping)],
      [label |-> Label("Sales (18%):", lang, shaping),
       cell |-> currency(totals.sales, lang, shaping)],
      [label |-> Label("Discount (0%):", lang, shaping),
       cell |-> currency(totals.discount, lang, shaping)]>>

\* The row of the net total block.
NetTotalRows(totals, lang, shaping) ==
    <<[label |-> Label("NET TOTAL:", lang, shaping),
       cell |-> currency(totals.net, lang, shaping)]>>

(* ------------------------- generate_pdf_bytes ------------------------- *)

Call_generate_pdf_bytes ==
    /\ pc = "idle"
    /\ \E d \in Records, l \in Languages :
        /\ invoice_data' = d
        /\ out_lang' = l
        /\ env' \in EnvironmentsFor(d)
    /\ fn' = "generate_pdf_bytes"
    /\ pc' = "gpb_start"
    /\ UNCHANGED <<reportlab_available, has_shaping, items, subtotal, tax,
                   discount, net_total, elements, result>>
    /\ UNCHANGED <<font, shape_arg, shape_ret>>
    /\ UNCHANGED other_vars

\* The text fallback when reportlab is missing or its modules fail to import.
gpb_Import ==
    /\ fn = "generate_pdf_bytes"
    /\ pc = "gpb_start"
    /\ \/ /\ ~reportlab_available
          /\ Finish(TextFallback("Invoice (fallback)", invoice_data))
       \/ /\ reportlab_available
          /\ Finish(TextFallback("Invoice (fallback)", invoice_data))
       \/ /\ reportlab_available
          /\ pc' = "gpb_fonts"
          /\ UNCHANGED result
    /\ UNCHANGED <<reportlab_available, has_shaping, fn, invoice_data, out_lang,
                   items, subtotal, tax, discount, net_total, elements>>
    /\ UNCHANGED call_vars
    /\ UNCHANGED other_vars

\* The font pairs.
Helvetica == [FONT |-> "Helvetica", FONTB |-> "Helvetica-Bold"]
Roboto == [FONT |-> "Roboto", FONTB |-> "Roboto-Bold"]
Tajawal == [FONT |-> "Tajawal", FONTB |-> "Tajawal"]

\* The pair, or Helvetica when registering it raised.
Registered(pair, e) == IF e.register_fails THEN Helvetica ELSE pair

\* A choice that tries Tajawal for Arabic ahead of Roboto.
ChooseFontTajawalFirst(e, lang) ==
    IF lang = "ar" /\ e.tajawal THEN Registered(Tajawal, e)
    ELSE IF e.roboto_reg /\ e.roboto_bold THEN Registered(Roboto, e)
    ELSE Helvetica

\* The font registration: Roboto when both of its files exist, else Tajawal
\* for Arabic when its file exists, else Helvetica.
ChooseFont(e, lang) ==
    IF e.roboto_reg /\ e.roboto_bold THEN Registered(Roboto, e)
    ELSE IF lang = "ar" /\ e.tajawal THEN Registered(Tajawal, e)
    ELSE Helvetica

gpb_Fonts ==
    /\ fn = "generate_pdf_bytes"
    /\ pc = "gpb_fonts"
    /\ font' = ChooseFont(env, out_lang)
    /\ pc' = "gpb_items"
    /\ UNCHANGED <<reportlab_available, has_shaping, fn, invoice_data, out_lang,
                   items, subtotal, tax, discount, net_total, elements, result,
                   env, shape_arg, shape_ret>>
    /\ UNCHANGED other_vars

\* The items loop; it stands in no try block.
gpb_MapItems ==
    /\ fn = "generate_pdf_bytes"
    /\ pc = "gpb_items"
    /\ \E bad \in {FirstRaising(invoice_data.items)} :
           \/ /\ bad # 0
              /\ Finish(Raised(ItemTotal(invoice_data.items[bad]).exc))
              /\ UNCHANGED items
           \/ /\ bad = 0
              /\ items' = [i \in 1..Len(invoice_data.items) |->
                               NormalizeItem(invoice_data.items[i])]
              /\ pc' = "gpb_totals"
              /\ UNCHANGED result
    /\ UNCHANGED <<reportlab_available, has_shaping, fn, invoice_data, out_lang,
                   subtotal, tax, discount, net_total, elements>>
    /\ UNCHANGED call_vars
    /\ UNCHANGED other_vars

gpb_Totals ==
    /\ fn = "generate_pdf_bytes"
    /\ pc = "gpb_totals"
    /\ subtotal' = Subtotal(invoice_data, items)
    /\ \E td \in {TaxAndDiscount(invoice_data)} :
           /\ tax' = td.tax
           /\ discount' = td.discount
    /\ net_total' = NetTotal(subtotal', tax', discount')
    /\ pc' = "gpb_elements"
    /\ UNCHANGED <<reportlab_available, has_shaping, fn, invoice_data, out_lang,
                   items, elements, result>>
    /\ UNCHANGED call_vars
    /\ UNCHANGED other_vars

(* -------------------- generate_pdf_bytes: the document ---------------- *)

\* A block of the document: its tag, its rows and the fonts its paragraph
\* styles name.
FBlock(tag, rows, fonts) == [tag |-> tag, rows |-> rows, fonts |-> fonts]

\* The height asked of the logo.
LogoHeight == 40

LogoImage(w, h) == [kind |-> "image", width |-> w, height |-> h]
LogoSpacer(h) == [kind |-> "spacer", width |-> 1, height |-> h]

\* int(max_height * 2.5)
FixedWidth(max_height) == (max_height * 5) \div 2

\* int(max_height * aspect), the aspect being width / height, or 1 for an
\* image of height 0.
AspectWidth(size, max_height) ==
    IF size[2] # 0 THEN (max_height * size[1]) \div size[2] ELSE max_height

\* A logo cell that never looks into the image.
get_logo_image_fixed(e, max_height) ==
    IF ~e.logo_exists \/ e.image_fails THEN LogoSpacer(max_height)
    ELSE LogoImage(FixedWidth(max_height), max_height)

\* get_logo_image(path, max_height). An Image() that raises in the inner try
\* block raises again in its except clause, and the outer one gives the
\* spacer.
get_logo_image(e, max_height) ==
    IF ~e.logo_exists \/ e.image_fails THEN LogoSpacer(max_height)
    ELSE IF e.pil /\ ~e.open_fails
         THEN LogoImage(AspectWidth(e.logo_size, max_height), max_height)
    ELSE LogoImage(FixedWidth(max_height), max_height)

\* inv_title: the document type, or the default of the language.
inv_title(data, lang, shaping) ==
    IF Truthy(Get(data, "invoice_type")) THEN Text(Str(Get(data, "invoice_type")))
    ELSE IF lang = "ar" THEN local_s(Text(s_Invoice_ar), lang, shaping)
    ELSE Text(s_Invoice)

\* title = inv_title if out_lang == 'en' else local_s(inv_title)
title(data, lang, shaping) ==
    IF lang = "en" THEN inv_title(data, lang, shaping)
    ELSE local_s(inv_title(data, lang, shaping), lang, shaping)

\* The text placed in the title banner.
banner_title(data, lang, shaping) ==
    IF lang = "ar" THEN local_s(title(data, lang, shaping), lang, shaping)
    ELSE title(data, lang, shaping)

\* The steps that stand in a try block of their own, and the others.
Guarded == {"header", "title", "items", "footer"}
Unguarded == StepSet \ Guarded

\* What a step adds to the document; cx holds the locals of the call.
HeaderBlocks(cx) ==
    IF "header" \in cx.env.failing
    THEN <<FBlock("header_fallback",
                  <<[text |-> Text(<<"EL HEKMA ENGINEERING OFFICE Co.">>)]>>,
                  {cx.font.FONTB})>>
    ELSE <<FBlock("header",
                  <<[logo |-> get_logo_image(cx.env, LogoHeight),
                     name |-> Label("EL HEKMA ENGINEERING OFFICE Co.",
                                    cx.lang, cx.shaping),
                     address |-> Label("ADDRESS", cx.lang, cx.shaping)]>>,
                  {cx.font.FONT, cx.font.FONTB})>>

TitleBlocks(cx) ==
    IF "title" \in cx.env.failing
    THEN <<FBlock("title_fallback",
                  <<[text |-> title(cx.data, cx.lang, cx.shaping)]>>,
                  {cx.font.FONTB})>>
    ELSE <<FBlock("title",
                  <<[text |-> banner_title(cx.data, cx.lang, cx.shaping)]>>,
                  {cx.font.FONTB})>>

ClientBlocks(cx) ==
    <<FBlock("client",
             <<[label |-> Label("Client", cx.lang, cx.shaping)],
               [label |-> Label("Date", cx.lang, cx.shaping)]>>,
             {cx.font.FONT})>>

\* The fonts of the items table: table_header for the header row, and
\* table_left and table_cell for the paragraphs of an item row. The index,
\* code and quantity cells are plain strings and name no font.
ItemsTableFonts(cx) ==
    IF cx.items = <<>> THEN {cx.font.FONTB}
    ELSE {cx.font.FONTB, cx.font.FONT}

ItemsBlocks(cx) ==
    IF "items" \in cx.env.failing
    THEN [i \in 1..Len(cx.items) |->
             FBlock("item_line", <<cx.items[i]>>, {cx.font.FONT})]
    ELSE <<FBlock("items_table", ItemRows(cx.items, cx.lang, cx.shaping),
                  ItemsTableFonts(cx))>>

TotalsBlocks(cx) ==
    <<FBlock("totals_table", TotalsRows(cx.totals, cx.lang, cx.shaping),
             {cx.font.FONT})>>

NetBlocks(cx) ==
    <<FBlock("net_total", NetTotalRows(cx.totals, cx.lang, cx.shaping),
             {cx.font.FONTB})>>

SellerBlocks(cx) ==
    <<FBlock("seller",
             <<[label |-> Label("THE SELLER", cx.lang, cx.shaping)],
               [label |-> Label("Signature", cx.lang, cx.shaping)]>>,
             {cx.font.FONT, cx.font.FONTB})>>

FooterBlocks(cx) ==
    IF "footer" \in cx.env.failing THEN <<>>
    ELSE <<FBlock("footer",
                  <<[text |-> Label("This is an electronic invoice. Powered by HEO Systems.",
                                    cx.lang, cx.shaping)]>>,
                  {cx.font.FONT})>>

StepBlocks(step, cx) ==
    CASE step = "header" -> HeaderBlocks(cx)
      [] step = "title" -> TitleBlocks(cx)
      [] step = "client" -> ClientBlocks(cx)
      [] step = "items" -> ItemsBlocks(cx)
      [] step = "totals" -> TotalsBlocks(cx)
      [] step = "net" -> NetBlocks(cx)
      [] step = "seller" -> SellerBlocks(cx)
      [] OTHER -> FooterBlocks(cx)

\* The documents after each number of steps.
DocumentTo(cx) ==
    LET D[i \in 0..Len(Steps)] ==
            IF i = 0 THEN <<>> ELSE D[i - 1] \o StepBlocks(Steps[i], cx)
    IN  D

\* The first step whose failure no try block of its own catches, or one past
\* the last step.
Abort(failing) ==
    Min({i \in 1..Len(Steps) : Steps[i] \in failing \cap Unguarded}
            \cup {Len(Steps) + 1})

\* The structural steps from the header to the footer. A step that fails in
\* its try block adds its fallback; one that fails outside a try block ends
\* the call with what it raised.
gpb_Elements ==
    /\ fn = "generate_pdf_bytes"
    /\ pc = "gpb_elements"
    /\ \E cx \in {[data |-> invoice_data, lang |-> out_lang,
                   shaping |-> has_shaping, font |-> font, env |-> env,
                   items |-> items,
                   totals |-> Totals(subtotal, tax, discount, net_total)]},
          a \in {Abort(env.failing)} :
           /\ elements' = DocumentTo(cx)[a - 1]
           /\ \/ /\ a <= Len(Steps)
                 /\ Finish(Raised("Exception"))
              \/ /\ a > Len(Steps)
                 /\ pc' = "gpb_build"
                 /\ UNCHANGED result
    /\ UNCHANGED <<reportlab_available, has_shaping, fn, invoice_data, out_lang,
                   items, subtotal, tax, discount, net_total>>
    /\ UNCHANGED call_vars
    /\ UNCHANGED other_vars

\* doc.build: the document, or the text fallback when it raises.
gpb_Build ==
    /\ fn = "generate_pdf_bytes"
    /\ pc = "gpb_build"
    /\ \/ Finish(Bytes(<<"%PDF">>))
       \/ Finish(TextFallback("Invoice (generation failed)", invoice_data))
    /\ UNCHANGED <<reportlab_available, has_shaping, fn, invoice_data, out_lang,
                   items, subtotal, tax, discount, net_total, elements>>
    /\ UNCHANGED call_vars
    /\ UNCHANGED other_vars

(* ---------------------- generate_professional_pdf --------------------- *)

\* format_text(text, is_arabic)
format_text(t, is_arabic, shaping) ==
    IF is_arabic /\ shaping THEN [t EXCEPT !.shaped = @ + 1] ELSE t

\* f"{v:,.2f}": a number is formatted, a text or None raises.
FormatSpec(v) ==
    IF IsNum(v) THEN Val(PyStr(Format2(v.n)))
    ELSE Exc(IF v.k = "str" THEN "ValueError" ELSE "TypeError")

\* The exception that building the row of item it raises, or "none".
ProRowExc(it) ==
    IF ~FormatSpec(GetD(it, "price", PyInt(0))).ok
    THEN FormatSpec(GetD(it, "price", PyInt(0))).exc
    ELSE FormatSpec(GetD(it, "total", PyInt(0))).exc

\* f"{currency} {v:,.2f}" with the default currency code.
ProCell(v) == [value |-> Text(FormatSpec(v).val.s), token |-> Text(s_EGP)]

\* The rows of the items table below its header row.
ProRows(its, lang, shaping) ==
    [i \in 1..Len(its) |->
        [idx |-> i,
         desc |-> format_text(Text(Str(GetD(its[i], "description", PyStr(<<>>)))),
                              lang = "ar", shaping),
         qty |-> Str(GetD(its[i], "quantity", PyInt(0))),
         unit |-> ProCell(GetD(its[i], "price", PyInt(0))),
         total |-> ProCell(GetD(its[i], "total", PyInt(0)))]]

\* The sums of item.get('total', 0) over the first i items.
ProSumTo(its) ==
    LET S[i \in 0..Len(its)] ==
            IF i = 0 THEN 0 ELSE S[i - 1] + GetD(its[i], "total", PyInt(0)).n
    IN  S

\* grand_total = subtotal + tax - discount
GrandTotal(sub, tx, disc) == sub + tx - disc

\* The rows of the totals table.
ProTotalsRows(sub, grand) ==
    <<[label |-> Text(<<"Subtotal:">>), cell |-> ProCell(PyFloat(sub))],
      [label |-> Text(<<"Grand Total:">>), cell |-> ProCell(PyFloat(grand))]>>

\* type_map.get(invoice_type, default): the Arabic title of a document type.
TypeMap(v) ==
    IF v = PyStr(s_Quotation) THEN s_Quotation_ar
    ELSE IF v = PyStr(s_Commercial) THEN s_Commercial_ar
    ELSE IF v = PyStr(s_Proforma) THEN s_Proforma_ar
    ELSE s_Invoice_ar

\* The title paragraph.
ProTitle(data, lang, shaping) ==
    IF lang = "ar"
    THEN format_text(Text(TypeMap(GetD(data, "invoice_type", PyStr(s_Invoice)))),
                     TRUE, shaping)
    ELSE format_text(Text(Str(GetD(data, "invoice_type", PyStr(s_Invoice)))),
                     FALSE, shaping)

\* The except clauses: the message as bytes.
ProError(e) ==
    IF e = "ImportError" THEN Bytes(<<"PDF generation requires ReportLab", e>>)
    ELSE Bytes(<<"Error generating PDF", e>>)

Call_generate_professional_pdf ==
    /\ pc = "idle"
    /\ \E d \in Records, l \in Languages :
        /\ invoice_data' = d
        /\ out_lang' = l
    /\ fn' = "generate_professional_pdf"
    /\ pc' = "pro_start"
    /\ UNCHANGED <<reportlab_available, has_shaping, items, subtotal, tax,
                   discount, net_total, elements, result>>
    /\ UNCHANGED call_vars
    /\ UNCHANGED other_vars

\* The imports at the head of the try block.
pro_Import ==
    /\ fn = "generate_professional_pdf"
    /\ pc = "pro_start"
    /\ \/ /\ ~reportlab_available
          /\ Finish(ProError("ImportError"))
       \/ /\ reportlab_available
          /\ pc' = "pro_rows"
          /\ UNCHANGED result
    /\ UNCHANGED <<reportlab_available, has_shaping, fn, invoice_data, out_lang,
                   items, subtotal, tax, discount, net_total, elements>>
    /\ UNCHANGED call_vars
    /\ UNCHANGED other_vars

\* The title and the loop that fills items_data.
pro_Rows ==
    /\ fn = "generate_professional_pdf"
    /\ pc = "pro_rows"
    /\ \E bad \in {{i \in 1..Len(invoice_data.items) :
                       ProRowExc(invoice_data.items[i]) # "none"}} :
           \/ /\ bad # {}
              /\ Finish(ProError(ProRowExc(invoice_data.items[Min(bad)])))
              /\ elements' =
                   <<Block("title",
                           <<[text |-> ProTitle(invoice_data, out_lang, has_shaping)]>>)>>
           \/ /\ bad = {}
              /\ elements' =
                   <<Block("title",
                           <<[text |-> ProTitle(invoice_data, out_lang, has_shaping)]>>),
                     Block("items_table",
                           ProRows(invoice_data.items, out_lang, has_shaping))>>
              /\ pc' = "pro_totals"
              /\ UNCHANGED result
    /\ UNCHANGED <<reportlab_available, has_shaping, fn, invoice_data, out_lang,
                   items, subtotal, tax, discount, net_total>>
    /\ UNCHANGED call_vars
    /\ UNCHANGED other_vars

\* The totals: the tax and the discount are used as the record holds them.
pro_Totals ==
    /\ fn = "generate_professional_pdf"
    /\ pc = "pro_totals"
    /\ \E tx \in {GetD(invoice_data, "tax", PyInt(0))},
          disc \in {GetD(invoice_data, "discount", PyInt(0))},
          sub \in {ProSumTo(invoice_data.items)[Len(invoice_data.items)]} :
           \/ /\ ~(IsNum(tx) /\ IsNum(disc))
              /\ Finish(ProError("TypeError"))
              /\ UNCHANGED <<subtotal, tax, discount, net_total, elements>>
           \/ /\ IsNum(tx) /\ IsNum(disc)
              /\ subtotal' = sub
              /\ tax' = tx.n
              /\ discount' = disc.n
              /\ net_total' = GrandTotal(sub, tx.n, disc.n)
              /\ elements' =
                   Append(elements,
                          Block("totals_table",
                                ProTotalsRows(sub, GrandTotal(sub, tx.n, disc.n))))
              /\ pc' = "pro_build"
              /\ UNCHANGED result
    /\ UNCHANGED <<reportlab_available, has_shaping, fn, invoice_data, out_lang,
                   items>>
    /\ UNCHANGED call_vars
    /\ UNCHANGED other_vars

\* doc.build: the document, or the message of what it raised.
pro_Build ==
    /\ fn = "generate_professional_pdf"
    /\ pc = "pro_build"
    /\ \/ Finish(Bytes(<<"%PDF">>))
       \/ Finish(ProError("Exception"))
    /\ UNCHANGED <<reportlab_available, has_shaping, fn, invoice_data, out_lang,
                   items, subtotal, tax, discount, net_total, elements>>
    /\ UNCHANGED call_vars
    /\ UNCHANGED other_vars

(* ------------------- generate_pdf (streamlit-invoice-app) ------------- *)

\* The row drawn for an item: its description and the str() of the rest.
PdfRows(its) ==
    [i \in 1..Len(its) |->
        [desc |-> Text(Str(GetD(its[i], "description", PyStr(<<>>)))),
         qty |-> Str(GetD(its[i], "quantity", PyStr(<<>>))),
         price |-> Str(GetD(its[i], "price", PyStr(<<>>))),
         total |-> Str(GetD(its[i], "total", PyStr(<<>>)))]]

Call_generate_pdf ==
    /\ pc = "idle"
    /\ \E d \in Records, l \in Languages :
        /\ invoice_data' = d
        /\ out_lang' = l
    /\ fn' = "generate_pdf"
    /\ pc' = "gp_start"
    /\ UNCHANGED <<reportlab_available, has_shaping, items, subtotal, tax,
                   discount, net_total, elements, result>>
    /\ UNCHANGED call_vars
    /\ UNCHANGED other_vars

\* The imports at the head of the function, ahead of its try block.
gp_Import ==
    /\ fn = "generate_pdf"
    /\ pc = "gp_start"
    /\ \/ /\ ~(reportlab_available /\ has_shaping)
          /\ Finish(Raised("ImportError"))
       \/ /\ reportlab_available /\ has_shaping
          /\ pc' = "gp_header"
          /\ UNCHANGED result
    /\ UNCHANGED <<reportlab_available, has_shaping, fn, invoice_data, out_lang,
                   items, subtotal, tax, discount, net_total, elements>>
    /\ UNCHANGED call_vars
    /\ UNCHANGED other_vars

\* The company lines, the title, the meta lines and the column heads. With
\* rtl the module-level _shape_text_for_pdf reads the names arabic_reshaper
\* and get_display, which its module never binds: the NameError ends the try
\* block in its except clause.
gp_Header ==
    /\ fn = "generate_pdf"
    /\ pc = "gp_header"
    /\ \/ /\ out_lang = "ar"
          /\ Finish(Bytes(<<>>))
       \/ /\ out_lang # "ar"
          /\ pc' = "gp_items"
          /\ UNCHANGED result
    /\ UNCHANGED <<reportlab_available, has_shaping, fn, invoice_data, out_lang,
                   items, subtotal, tax, discount, net_total, elements>>
    /\ UNCHANGED call_vars
    /\ UNCHANGED other_vars

\* The item loop.
gp_Items ==
    /\ fn = "generate_pdf"
    /\ pc = "gp_items"
    /\ elements' = <<Block("rows", PdfRows(invoice_data.items))>>
    /\ pc' = "gp_save"
    /\ UNCHANGED <<reportlab_available, has_shaping, fn, invoice_data, out_lang,
                   items, subtotal, tax, discount, net_total, result>>
    /\ UNCHANGED call_vars
    /\ UNCHANGED other_vars

\* The total line and c.save().
gp_Save ==
    /\ fn = "generate_pdf"
    /\ pc = "gp_save"
    /\ Finish(Bytes(<<"%PDF">>))
    /\ UNCHANGED <<reportlab_available, has_shaping, fn, invoice_data, out_lang,
                   items, subtotal, tax, discount, net_total, elements>>
    /\ UNCHANGED call_vars
    /\ UNCHANGED other_vars

(* ------------------------- _shape_text_for_pdf ------------------------ *)

\* A call of the copy in app.py.
Call_app_shape_text_for_pdf ==
    /\ pc = "idle"
    /\ \E v \in ShapeInputs, rtl \in BOOLEAN, fails \in BOOLEAN :
        /\ shape_arg' = [text |-> v, rtl |-> rtl, fails |-> fails]
        /\ shape_ret' = app_shape_text_for_pdf(v, rtl, has_shaping, fails)
    /\ fn' = "app._shape_text_for_pdf"
    /\ pc' = "done"
    /\ UNCHANGED <<reportlab_available, has_shaping, invoice_data, out_lang,
                   items, subtotal, tax, discount, net_total, elements, result,
                   env, font>>
    /\ UNCHANGED other_vars

\* A call of the copy in streamlit-invoice-app/utils/pdf_utils.py.
Call_streamlit_shape_text_for_pdf ==
    /\ pc = "idle"
    /\ \E v \in ShapeInputs, rtl \in BOOLEAN, fails \in BOOLEAN :
        /\ shape_arg' = [text |-> v, rtl |-> rtl, fails |-> fails]
        /\ shape_ret' = streamlit_shape_text_for_pdf(v, rtl)
    /\ fn' = "pdf_utils._shape_text_for_pdf"
    /\ pc' = "done"
    /\ UNCHANGED <<reportlab_available, has_shaping, invoice_data, out_lang,
                   items, subtotal, tax, discount, net_total, elements, result,
                   env, font>>
    /\ UNCHANGED other_vars

Next ==
    \/ Call_generate_pdf_bytes
    \/ gpb_Import
    \/ gpb_Fonts
    \/ gpb_MapItems
    \/ gpb_Totals
    \/ gpb_Elements
    \/ gpb_Build
    \/ Call_generate_professional_pdf
    \/ pro_Import
    \/ pro_Rows
    \/ pro_Totals
    \/ pro_Build
    \/ Call_generate_pdf
    \/ gp_Import
    \/ gp_Header
    \/ gp_Items
    \/ gp_Save
    \/ Call_app_shape_text_for_pdf
    \/ Call_streamlit_shape_text_for_pdf
    \/ Return

Spec == Init /\ [][Next]_vars

(* --------------------------- invoices table --------------------------- *)

\* Most rows of the invoices table, and the last reading of the clock.
MaxInvoices == 2
MaxTime == 2

\* The days arguments of the cancellation functions.
DaysArgs == {1, 2}

\* CHECK(status IN ('Pending','Paid','Cancelled')), and the statuses asked for.
Statuses == {"Pending", "Paid", "Cancelled"}
StatusArgs == Statuses \cup {"Draft"}

\* The PDF entry points at rest.
RenderIdle ==
    /\ reportlab_available = TRUE
    /\ has_shaping = TRUE
    /\ fn = "none"
    /\ pc = "idle"
    /\ invoice_data = EmptyRecord
    /\ out_lang = "en"
    /\ items = <<>>
    /\ subtotal = 0
    /\ tax = 0
    /\ discount = 0
    /\ net_total = 0
    /\ elements = <<>>
    /\ result = NoResult
    /\ env = Equipped
    /\ font = NoFont
    /\ shape_arg = NoShapeArg
    /\ shape_ret = NoShapeRet

\* The item lists given to the creation functions: none, 2 x 50.00 with no
\* total, 1 x 75.00 with its total, and both.
InvoiceItemLists ==
    {<<>>, <<ItemPlainOld>>, <<ItemWithTotal>>, <<ItemPlainOld, ItemWithTotal>>}

\* item.dict() of an InvoiceItem: a total or code that was not given is None.
ItemDict(it) ==
    [key \in ItemKeys |->
        IF key \in {"total", "code"} /\ it[key] = Absent THEN None ELSE it[key]]

\* item.get('quantity', 0) * item.get('price', 0)
RawProduct(q, p) ==
    IF IsNum(q) /\ IsNum(p) THEN Val(PyFloat(Mul(q.n, p.n))) ELSE Exc("TypeError")

\* float(item.get('total', quantity * price)): the default is computed
\* before get() looks the key up.
ItemAmountOf(it, prod) ==
    IF ~prod.ok THEN Raise(prod.exc) ELSE Float(GetD(it, "total", prod.val))
ItemAmount(it) ==
    ItemAmountOf(it, RawProduct(GetD(it, "quantity", PyInt(0)),
                                GetD(it, "price", PyInt(0))))

\* The sums of the amounts of the first i items.
AmountSum(its) ==
    LET S[i \in 0..Len(its)] == IF i = 0 THEN 0 ELSE S[i - 1] + ItemAmount(its[i]).v
    IN  S

\* The total of create_invoice and create_invoice_db: the sum, or 0.0 when
\* anything in it raised.
InvoiceTotal(its) ==
    IF \E i \in 1..Len(its) : ~ItemAmount(its[i]).ok THEN 0
    ELSE AmountSum(its)[Len(its)]

\* The row that the INSERT of create_invoice adds.
NewInvoice(its, t) ==
    [status |-> "Pending", invoice_date |-> t, updated_at |-> t,
     total |-> InvoiceTotal(its)]

\* An UPDATE that cancels the first matching row only.
CancelFirstPending(rows, t, days) ==
    [i \in 1..Len(rows) |->
        IF /\ rows[i].status = "Pending" /\ rows[i].invoice_date <= t - days
           /\ \A j \in 1..(i - 1) :
                  ~(rows[j].status = "Pending" /\ rows[j].invoice_date <= t - days)
        THEN [rows[i] EXCEPT !.status = "Cancelled", !.updated_at = t]
        ELSE rows[i]]

\* UPDATE invoices SET status='Cancelled', updated_at=now
\* WHERE status='Pending' AND invoice_date<=cutoff, the cutoff being days
\* before now.
CancelPending(rows, t, days) ==
    [i \in 1..Len(rows) |->
        IF rows[i].status = "Pending" /\ rows[i].invoice_date <= t - days
        THEN [rows[i] EXCEPT !.status = "Cancelled", !.updated_at = t]
        ELSE rows[i]]

\* UPDATE invoices SET status = ?, updated_at = ? WHERE id = ?
SetStatus(rows, id, st, t) ==
    [i \in 1..Len(rows) |->
        IF i = id THEN [rows[i] EXCEPT !.status = st, !.updated_at = t]
        ELSE rows[i]]

\* The number of rows in which two states of the table differ.
Changed(rows, after) == Cardinality({i \in 1..Len(rows) : after[i] # rows[i]})

\* The call repeats the one before it: the same function with the same days,
\* at the same reading of the clock, the database there both times.
Again(op, up, days) ==
    last.op = op /\ last.days = days /\ last.at = now /\ last.up /\ up

\* The record of an operation: what was asked, what came of it, how many
\* rows it changed and, for a repeated call, how many the call before did.
Did(op, up, id, st, days, outcome, http, given, changed) ==
    [op |-> op, up |-> up, id |-> id, status |-> st, days |-> days,
     outcome |-> outcome, http |-> http, given |-> given, at |-> now,
     changed |-> changed, again |-> Again(op, up, days),
     changed_before |-> IF Again(op, up, days) THEN last.changed ELSE 0]

\* The clock moves on.
Tick ==
    /\ now < MaxTime
    /\ now' = now + 1
    /\ UNCHANGED <<invoices, last>>
    /\ UNCHANGED <<render_vars, client_vars, canvas, conc_vars>>

\* The INSERT of the creation functions.
InsertInvoice(op, its, given, http) ==
    /\ Len(invoices) < MaxInvoices
    /\ invoices' = Append(invoices, NewInvoice(its, now))
    /\ last' = Did(op, TRUE, Len(invoices) + 1, "Pending", 0, "ok", http, given, 1)
    /\ UNCHANGED now
    /\ UNCHANGED <<render_vars, client_vars, canvas, conc_vars>>

\* create_invoice of invoice_service.py
create_invoice ==
    \E its \in InvoiceItemLists : InsertInvoice("create_invoice", its, its, 0)

\* POST /api/invoices: the items go through item.dict().
create_new_invoice ==
    \E its \in InvoiceItemLists :
        InsertInvoice("create_new_invoice",
                      [i \in 1..Len(its) |-> ItemDict(its[i])], its, 200)

\* create_invoice_db of app.py
create_invoice_db ==
    \E its \in InvoiceItemLists : InsertInvoice("create_invoice_db", its, its, 0)

\* The UPDATE of update_invoice_status: the CHECK constraint of the table
\* makes it raise when it would write another status into a row; an id that
\* no row has matches nothing, is not checked and changes nothing.
UpdateStatus(op, id, st, http_ok, http_err) ==
    /\ \/ /\ st \in Statuses \/ id > Len(invoices)
          /\ invoices' = SetStatus(invoices, id, st, now)
          /\ last' = Did(op, TRUE, id, st, 0, "ok", http_ok, <<>>,
                         IF id <= Len(invoices) THEN 1 ELSE 0)
       \/ /\ st \notin Statuses /\ id <= Len(invoices)
          /\ invoices' = invoices
          /\ last' = Did(op, TRUE, id, st, 0, "raised", http_err, <<>>, 0)
    /\ UNCHANGED now
    /\ UNCHANGED <<render_vars, client_vars, canvas, conc_vars>>

\* update_invoice_status of invoice_service.py
update_invoice_status ==
    \E id \in 1..MaxInvoices, st \in StatusArgs :
        UpdateStatus("update_invoice_status", id, st, 0, 0)

\* PATCH /api/invoices/{id}/status. The parameter status of the handler hides
\* the module fastapi.status, so status.HTTP_400_BAD_REQUEST in the except
\* clause raises AttributeError on the str and the answer is 500.
update_status ==
    \E id \in 1..MaxInvoices, st \in StatusArgs :
        UpdateStatus("update_status", id, st, 200, 500)

\* auto_cancel_pending_invoices(days) of invoice_service.py; with no
\* database the connection raises.
auto_cancel_pending_invoices ==
    /\ \E days \in DaysArgs, up \in BOOLEAN :
        \/ /\ up
           /\ invoices' = CancelPending(invoices, now, days)
           /\ last' = Did("auto_cancel_pending_invoices", up, 0, "none", days,
                          "ok", 0, <<>>,
                          Changed(invoices, CancelPending(invoices, now, days)))
        \/ /\ ~up
           /\ invoices' = invoices
           /\ last' = Did("auto_cancel_pending_invoices", up, 0, "none", days,
                          "raised", 0, <<>>, 0)
    /\ UNCHANGED now
    /\ UNCHANGED <<render_vars, client_vars, canvas, conc_vars>>

\* invoice_age_check_live(days) of app.py: the same UPDATE in a try block
\* whose except clause passes.
invoice_age_check_live ==
    /\ \E days \in DaysArgs, up \in BOOLEAN :
        /\ invoices' = IF up THEN CancelPending(invoices, now, days) ELSE invoices
        /\ last' = Did("invoice_age_check_live", up, 0, "none", days, "ok", 0, <<>>,
                       IF up THEN Changed(invoices, CancelPending(invoices, now, days))
                       ELSE 0)
    /\ UNCHANGED now
    /\ UNCHANGED <<render_vars, client_vars, canvas, conc_vars>>

InvoiceInit == RenderIdle /\ OtherStart

InvoiceNext ==
    \/ Tick
    \/ create_invoice
    \/ create_new_invoice
    \/ create_invoice_db
    \/ update_invoice_status
    \/ update_status
    \/ auto_cancel_pending_invoices
    \/ invoice_age_check_live

InvoiceSpec == InvoiceInit /\ [][InvoiceNext]_vars

(* ---------------------------- clients table --------------------------- *)

MaxClients == 3

\* An email column or argument: NULL (None), the empty string or an address.
Emails == {"NULL", "", "a@x", "b@x"}
ClientNames == {"Ann", "Bob"}

\* The ids of the rows that SELECT id FROM clients WHERE email = ? matches;
\* NULL equals nothing.
RowsWithEmail(rows, email) ==
    {i \in 1..Len(rows) : email # "NULL" /\ rows[i].email = email}

\* fetchone() on that SELECT: the first matching row, 0 for none.
FirstWithEmail(rows, email) ==
    IF RowsWithEmail(rows, email) = {} THEN 0
    ELSE CHOOSE i \in RowsWithEmail(rows, email) :
             \A j \in RowsWithEmail(rows, email) : i <= j

\* INSERT INTO clients: email is UNIQUE, so a second row with the same
\* non-NULL email raises IntegrityError.
InsertClient(op, name, email) ==
    \/ /\ RowsWithEmail(clients, email) = {}
       /\ clients' = Append(clients, [name |-> name, email |-> email])
       /\ client_last' = [op |-> op, name |-> name, email |-> email,
                          outcome |-> "created", id |-> Len(clients) + 1,
                          before |-> clients]
    \/ /\ RowsWithEmail(clients, email) # {}
       /\ clients' = clients
       /\ client_last' = [op |-> op, name |-> name, email |-> email,
                          outcome |-> "raised", id |-> 0, before |-> clients]

\* The id of the row found is returned and nothing is inserted.
ReturnExisting(op, name, email) ==
    /\ clients' = clients
    /\ client_last' = [op |-> op, name |-> name, email |-> email,
                       outcome |-> "existing",
                       id |-> FirstWithEmail(clients, email), before |-> clients]

\* create_client of invoice_service.py: the lookup runs only for a truthy
\* email, so neither None nor "" is looked up.
create_client ==
    /\ Len(clients) < MaxClients
    /\ \E name \in ClientNames, email \in Emails :
           IF email \notin {"NULL", ""} /\ FirstWithEmail(clients, email) # 0
           THEN ReturnExisting("create_client", name, email)
           ELSE InsertClient("create_client", name, email)
    /\ UNCHANGED <<render_vars, invoice_vars, canvas, conc_vars>>

\* The client lookup of the create invoice form of app.py: the email is the
\* content of a text input, "" when left empty, and is always looked up.
client_form ==
    /\ Len(clients) < MaxClients
    /\ \E name \in ClientNames, email \in Emails \ {"NULL"} :
           IF FirstWithEmail(clients, email) # 0
           THEN ReturnExisting("client_form", name, email)
           ELSE InsertClient("client_form", name, email)
    /\ UNCHANGED <<render_vars, invoice_vars, canvas, conc_vars>>

ClientInit == RenderIdle /\ OtherStart

ClientNext == create_client \/ client_form

ClientSpec == ClientInit /\ [][ClientNext]_vars

(* ------------------------------- canvas ------------------------------- *)

MaxDepth == 2
MaxRows == 28

\* The canvas calls of draw_outer_and_watermark: those before its try block,
\* those inside it and the one after it.
OuterCalls == <<"saveState", "setStrokeColor", "setLineWidth", "roundRect">>
TryCalls ==
    <<"setFont", "setFillColor", "saveState", "translate", "rotate",
      "drawCentredString", "restoreState">>
FinalCalls == <<"restoreState">>

\* The step of the watermark drawing that raises, if any.
FailPoints ==
    {"none", "setFont", "setFillColor", "translate", "rotate", "drawCentredString"}

\* The depth of the state stack after a canvas call.
Effect(call, depth) ==
    IF call = "saveState" THEN depth + 1
    ELSE IF call = "restoreState" THEN depth - 1
    ELSE depth

\* The position after the k-th call of a sequence of calls.
After(seq, k, here, next) ==
    IF k < Len(seq) THEN [pc |-> here, k |-> k + 1] ELSE [pc |-> next, k |-> 1]

\* Platypus calls draw_outer_and_watermark on a canvas of some stack depth.
Call_draw_outer_and_watermark ==
    /\ canvas.pc = "idle"
    /\ \E d \in 0..MaxDepth, f \in FailPoints :
           canvas' = [NoCanvas EXCEPT !.op = "draw_outer_and_watermark",
                                      !.pc = "outer", !.k = 1, !.entry = d,
                                      !.depth = d, !.fail = f]
    /\ UNCHANGED <<render_vars, invoice_vars, client_vars, conc_vars>>

\* A call ahead of the try block.
wm_Outer ==
    /\ canvas.op = "draw_outer_and_watermark"
    /\ canvas.pc = "outer"
    /\ canvas' = [canvas EXCEPT
                     !.depth = Effect(OuterCalls[canvas.k], canvas.depth),
                     !.pc = After(OuterCalls, canvas.k, "outer", "try").pc,
                     !.k = After(OuterCalls, canvas.k, "outer", "try").k]
    /\ UNCHANGED <<render_vars, invoice_vars, client_vars, conc_vars>>

\* A call inside the try block: when it raises, the except clause passes and
\* the function goes on behind the block.
wm_Try ==
    /\ canvas.op = "draw_outer_and_watermark"
    /\ canvas.pc = "try"
    /\ \/ /\ TryCalls[canvas.k] = canvas.fail
          /\ canvas' = [canvas EXCEPT !.pc = "final", !.k = 1]
       \/ /\ TryCalls[canvas.k] # canvas.fail
          /\ canvas' = [canvas EXCEPT
                           !.depth = Effect(TryCalls[canvas.k], canvas.depth),
                           !.pc = After(TryCalls, canvas.k, "try", "final").pc,
                           !.k = After(TryCalls, canvas.k, "try", "final").k]
    /\ UNCHANGED <<render_vars, invoice_vars, client_vars, conc_vars>>

\* The restoreState behind the try block.
wm_Final ==
    /\ canvas.op = "draw_outer_and_watermark"
    /\ canvas.pc = "final"
    /\ canvas' = [canvas EXCEPT
                     !.depth = Effect(FinalCalls[canvas.k], canvas.depth),
                     !.pc = "done"]
    /\ UNCHANGED <<render_vars, invoice_vars, client_vars, conc_vars>>

\* The letter page of generate_pdf and the positions of its item loop.
PageHeight == 792
RowStep == 18
BottomLimit == 60
TotalOffset == 10
FirstRowY == PageHeight - 160 - 70 - 20 - 10
TopRowY == PageHeight - 60

\* generate_pdf with rtl=False and n items reaches its item loop.
Call_item_loop ==
    /\ canvas.pc = "idle"
    /\ \E n \in 0..MaxRows :
           canvas' = [NoCanvas EXCEPT !.op = "generate_pdf", !.pc = "loop",
                                      !.n = n, !.item_y = FirstRowY]
    /\ UNCHANGED <<render_vars, invoice_vars, client_vars, conc_vars>>

\* One turn of the loop: the row is drawn at item_y, item_y goes down by a
\* row and, when that is below the limit, showPage() starts a new page.
gp_DrawRow ==
    /\ canvas.op = "generate_pdf"
    /\ canvas.pc = "loop"
    /\ canvas.i < canvas.n
    /\ canvas' = [canvas EXCEPT
                     !.rows = Append(@, [idx |-> canvas.i + 1, page |-> canvas.page,
                                         y |-> canvas.item_y]),
                     !.i = @ + 1,
                     !.page = IF canvas.item_y - RowStep < BottomLimit
                              THEN @ + 1 ELSE @,
                     !.item_y = IF canvas.item_y - RowStep < BottomLimit
                                THEN TopRowY ELSE @ - RowStep]
    /\ UNCHANGED <<render_vars, invoice_vars, client_vars, conc_vars>>

\* The Total line behind the loop, on the page the canvas is on.
gp_TotalLine ==
    /\ canvas.op = "generate_pdf"
    /\ canvas.pc = "loop"
    /\ canvas.i = canvas.n
    /\ canvas' = [canvas EXCEPT
                     !.total = [page |-> canvas.page,
                                y |-> canvas.item_y - TotalOffset],
                     !.pc = "done"]
    /\ UNCHANGED <<render_vars, invoice_vars, client_vars, conc_vars>>

\* The function returns; the canvas is dropped.
canvas_Return ==
    /\ canvas.pc = "done"
    /\ canvas' = NoCanvas
    /\ UNCHANGED <<render_vars, invoice_vars, client_vars, conc_vars>>

CanvasInit == RenderIdle /\ OtherStart

CanvasNext ==
    \/ Call_draw_outer_and_watermark
    \/ wm_Outer
    \/ wm_Try
    \/ wm_Final
    \/ Call_item_loop
    \/ gp_DrawRow
    \/ gp_TotalLine
    \/ canvas_Return

CanvasSpec == CanvasInit /\ [][CanvasNext]_vars

(* ----------------------- calls side by side ------------------------- *)

\* The records of the calls that run side by side.
ConcRecords ==
    {[items |-> <<ItemPlainOld>>, subtotal |-> Absent, total |-> Absent,
      tax |-> PyFloat(500), discount |-> Absent, invoice_type |-> Absent],
     [items |-> <<ItemWithTotal, ItemPlainNew>>, subtotal |-> Absent,
      total |-> Absent, tax |-> Absent, discount |-> PyFloat(300),
      invoice_type |-> PyStr(s_Quotation)]}

\* The fonts the registration block registers, in its order.
RegisterNames(e, lang) ==
    IF e.roboto_reg /\ e.roboto_bold THEN <<"Roboto", "Roboto-Bold">>
    ELSE IF lang = "ar" /\ e.tajawal THEN <<"Tajawal">>
    ELSE <<>>

\* ROBOTO_REG, ROBOTO_BOLD and TAJAWAL_TTF
FontFile(name) ==
    CASE name = "Roboto" -> "Roboto-Regular.ttf"
      [] name = "Roboto-Bold" -> "Roboto-Bold.ttf"
      [] OTHER -> "Tajawal-Regular.ttf"

\* A registration that drops what was registered before.
registerOnly(reg, name, file) == [n \in {name} |-> file]

\* pdfmetrics.registerFont(TTFont(name, file)): the entry of the name is set,
\* the others stay.
registerFont(reg, name, file) ==
    [n \in DOMAIN reg \cup {name} |-> IF n = name THEN file ELSE reg[n]]

\* The file a font name stands for when the document is built.
Lookup(reg, name) ==
    IF name \in {"Helvetica", "Helvetica-Bold"} THEN "builtin"
    ELSE IF name \in DOMAIN reg THEN reg[name]
    ELSE "missing"
Resolve(reg, f) ==
    [FONT |-> Lookup(reg, f.FONT), FONTB |-> Lookup(reg, f.FONTB)]

\* The items, the totals and the blocks of a call, all of them locals.
CallItems(d) == [i \in 1..Len(d.items) |-> NormalizeItem(d.items[i])]
TotalsOf(sub, td) ==
    Totals(sub, td.tax, td.discount, NetTotal(sub, td.tax, td.discount))
CallTotals(d) == TotalsOf(Subtotal(d, CallItems(d)), TaxAndDiscount(d))
CallElements(d, lang, f, e) ==
    DocumentTo([data |-> d, lang |-> lang, shaping |-> has_shaping, font |-> f,
                env |-> e, items |-> CallItems(d),
                totals |-> CallTotals(d)])[Len(Steps)]

\* The call c reads a font of this name between its registration and its
\* build.
Holds(c, name) ==
    /\ calls[c].pc \in {"blocks", "build"}
    /\ name \in {calls[c].font.FONT, calls[c].font.FONTB}

\* A thread calls generate_pdf_bytes.
conc_Call ==
    /\ \E c \in CallIds, d \in ConcRecords, l \in Languages :
        /\ calls[c].pc = "idle"
        /\ calls' = [calls EXCEPT ![c] = [NoCall EXCEPT !.pc = "fonts", !.k = 1,
                                                        !.data = d, !.lang = l]]
    /\ UNCHANGED registry
    /\ UNCHANGED <<render_vars, invoice_vars, client_vars, canvas>>

\* The next registerFont of the call; when TTFont raises, the except clause
\* sets Helvetica.
RegisterNext(c, name) ==
    \/ /\ env.register_fails
       /\ calls' = [calls EXCEPT ![c].pc = "blocks", ![c].font = Helvetica]
       /\ UNCHANGED registry
    \/ /\ ~env.register_fails
       /\ registry' = registerFont(registry, name, FontFile(name))
       /\ calls' = [d \in CallIds |->
                       IF d = c THEN [calls[c] EXCEPT !.k = @ + 1]
                       ELSE IF Holds(d, name) THEN [calls[d] EXCEPT !.rereg = TRUE]
                       ELSE calls[d]]

\* A step of the font registration block: a registration, or the assignment
\* of FONT and FONTB behind the last one.
conc_Register ==
    /\ \E c \in CallIds :
        /\ calls[c].pc = "fonts"
        /\ IF calls[c].k <= Len(RegisterNames(env, calls[c].lang))
           THEN RegisterNext(c, RegisterNames(env, calls[c].lang)[calls[c].k])
           ELSE /\ calls' = [calls EXCEPT
                                ![c].pc = "blocks",
                                ![c].font = ChooseFont(env, calls[c].lang)]
                /\ UNCHANGED registry
    /\ UNCHANGED <<render_vars, invoice_vars, client_vars, canvas>>

\* The items, the totals and the blocks, built in the locals of the call.
conc_Blocks ==
    /\ \E c \in CallIds :
        /\ calls[c].pc = "blocks"
        /\ calls' = [calls EXCEPT
                        ![c].pc = "build",
                        ![c].totals = CallTotals(calls[c].data),
                        ![c].elements = CallElements(calls[c].data, calls[c].lang,
                                                     calls[c].font, env)]
    /\ UNCHANGED registry
    /\ UNCHANGED <<render_vars, invoice_vars, client_vars, canvas>>

\* doc.build looks the fonts of the styles up in the registry.
conc_Build ==
    /\ \E c \in CallIds :
        /\ calls[c].pc = "build"
        /\ calls' = [calls EXCEPT ![c].pc = "done",
                                  ![c].used = Resolve(registry, calls[c].font)]
    /\ UNCHANGED registry
    /\ UNCHANGED <<render_vars, invoice_vars, client_vars, canvas>>

\* The call returns; what it registered stays registered.
conc_Return ==
    /\ \E c \in CallIds :
        /\ calls[c].pc = "done"
        /\ calls' = [calls EXCEPT ![c] = NoCall]
    /\ UNCHANGED registry
    /\ UNCHANGED <<render_vars, invoice_vars, client_vars, canvas>>

\* The font files are what they are for the whole run.
ConcInit ==
    /\ reportlab_available = TRUE
    /\ has_shaping = TRUE
    /\ fn = "none"
    /\ pc = "idle"
    /\ invoice_data = EmptyRecord
    /\ out_lang = "en"
    /\ items = <<>>
    /\ subtotal = 0
    /\ tax = 0
    /\ discount = 0
    /\ net_total = 0
    /\ elements = <<>>
    /\ result = NoResult
    /\ env \in FontEnvs
    /\ font = NoFont
    /\ shape_arg = NoShapeArg
    /\ shape_ret = NoShapeRet
    /\ OtherStart

ConcNext ==
    \/ conc_Call
    \/ conc_Register
    \/ conc_Blocks
    \/ conc_Build
    \/ conc_Return

ConcSpec == ConcInit /\ [][ConcNext]_vars

(* ------------------------------ properties ---------------------------- *)

\* A field that holds nothing or a number.
ValidNum(v) == v = Absent \/ IsNum(v)

\* A line item with a numeric quantity and unit price and, if any, a numeric
\* line total.
ValidItem(it) ==
    IsNum(ItemQty(it)) /\ IsNum(ItemUnit(it)) /\ ValidNum(it["total"])

\* A record all of whose amounts are numbers.
ValidRecord(d) ==
    /\ \A i \in 1..Len(d.items) : ValidItem(d.items[i])
    /\ ValidNum(d.subtotal) /\ ValidNum(d.total)
    /\ ValidNum(d.tax) /\ ValidNum(d.discount)

\* C1: for every record and language generate_pdf_bytes gives its caller a
\* bytes value; no exception reaches the caller.
C1_NoExceptionReachesCaller ==
    (fn = "generate_pdf_bytes" /\ pc = "done") => result.kind = "bytes"

\* C2: with the libraries installed, for every valid record and each language
\* (rtl false or true for generate_pdf), generate_pdf_bytes and generate_pdf
\* return bytes that are not empty.
C2_ValidRecordGivesNonEmptyBytes ==
    (/\ fn \in {"generate_pdf_bytes", "generate_pdf"}
     /\ pc = "done"
     /\ reportlab_available /\ has_shaping
     /\ ValidRecord(invoice_data))
        => (result.kind = "bytes" /\ result.bytes # <<>>)

\* The blocks of the document with a tag, and the first of them.
BlocksTagged(tag) == {i \in 1..Len(elements) : elements[i].tag = tag}
HasBlock(tag) == BlocksTagged(tag) # {}
BlockTagged(tag) == elements[Min(BlocksTagged(tag))]

\* The number text in the net total block of generate_pdf_bytes and in the
\* Grand Total row of generate_professional_pdf.
NetShown == BlockTagged("net_total").rows[1].cell.value.chars
GrandShown == BlockTagged("totals_table").rows[2].cell.value.chars

\* C3: in every render the net total shown is the subtotal plus the tax minus
\* the discount of that render (net_total in generate_pdf_bytes, grand_total
\* in generate_professional_pdf), whatever totals the record holds.
C3_NetTotalIsRecomputed ==
    /\ (fn = "generate_pdf_bytes" /\ pc = "gpb_build")
           => NetShown = Format2(subtotal + tax - discount)
    /\ (fn = "generate_professional_pdf" /\ pc = "pro_build")
           => GrandShown = Format2(subtotal + tax - discount)

\* A render with a tax and a discount whose record holds another total.
C3_Witness ==
    /\ fn = "generate_pdf_bytes" /\ pc = "gpb_build"
    /\ tax > 0 /\ discount > 0
    /\ IsNum(invoice_data.total)
    /\ invoice_data.total.n # subtotal + tax - discount
    /\ NetShown = Format2(subtotal + tax - discount)

\* The values of the record's total field that the records range over.
TotalVals == {Absent, PyFloat(10000), PyFloat(25000)}

\* C4: records with the same non-empty line items, tax and discount that
\* differ only in their total field get the same subtotal and net total from
\* generate_pdf_bytes.
C4_SubtotalIgnoresCallerTotal ==
    (fn = "generate_pdf_bytes" /\ pc = "gpb_elements" /\ invoice_data.items # <<>>)
        => \A t \in TotalVals :
               /\ Subtotal([invoice_data EXCEPT !.total = t], items) = subtotal
               /\ NetTotal(Subtotal([invoice_data EXCEPT !.total = t], items),
                           tax, discount) = net_total

\* C5: with no line items (and no subtotal on the record) generate_pdf_bytes
\* takes the record's total as the subtotal if it is present, and zero
\* otherwise.
C5_EmptyItemsFallBackToTotal ==
    (/\ fn = "generate_pdf_bytes" /\ pc = "gpb_elements"
     /\ invoice_data.items = <<>>
     /\ invoice_data.subtotal = Absent
     /\ ValidNum(invoice_data.total))
        => subtotal = (IF IsNum(invoice_data.total) THEN invoice_data.total.n ELSE 0)

\* The sum of the line totals that the rows of an items table show.
SumShown(rows) ==
    LET S[i \in 0..Len(rows)] ==
            IF i = 0 THEN 0
            ELSE S[i - 1] + ParseFloat(Replace(rows[i].total.value.chars, <<",">>)).v
    IN  S[Len(rows)]

\* C6: when the record holds no subtotal and has line items, the subtotal of
\* generate_pdf_bytes is the sum of the line totals of the normalized items,
\* the line totals that the items table shows.
C6_SubtotalIsSumOfLineTotals ==
    (/\ fn = "generate_pdf_bytes" /\ pc = "gpb_build"
     /\ invoice_data.subtotal = Absent
     /\ invoice_data.items # <<>>
     /\ HasBlock("items_table"))
        => subtotal = SumShown(BlockTagged("items_table").rows)

\* A line item with a quantity and a unit price and no line total.
NoLineTotal(it) ==
    it["total"] = Absent /\ IsNum(it["quantity"]) /\ IsNum(it["price"])

\* The sum of quantity times unit price over the items.
SumOfProducts(its) ==
    LET S[i \in 0..Len(its)] ==
            IF i = 0 THEN 0
            ELSE S[i - 1] + Mul(its[i]["quantity"].n, its[i]["price"].n)
    IN  S[Len(its)]

\* C7: for a line item without a line total both generate_pdf_bytes and
\* generate_professional_pdf show quantity times unit price as its line total
\* in the items table and count it so in the subtotal.
C7_LineTotalIsQuantityTimesPrice ==
    (pc \in {"gpb_build", "pro_build"} /\ HasBlock("items_table")) =>
        /\ \A i \in 1..Len(invoice_data.items) :
               NoLineTotal(invoice_data.items[i]) =>
                   BlockTagged("items_table").rows[i].total.value.chars =
                       Format2(Mul(invoice_data.items[i]["quantity"].n,
                                   invoice_data.items[i]["price"].n))
        /\ (/\ invoice_data.subtotal = Absent
            /\ \A i \in 1..Len(invoice_data.items) : NoLineTotal(invoice_data.items[i]))
               => subtotal = SumOfProducts(invoice_data.items)

\* The item with its description, quantity and price moved to the names
\* desc, qty and unit.
AsAlias(it) ==
    [key \in ItemKeys |->
        CASE key = "desc" -> it["description"]
          [] key = "qty" -> it["quantity"]
          [] key = "unit" -> it["price"]
          [] key \in {"description", "quantity", "price"} -> Absent
          [] OTHER -> it[key]]

UsesFirstNames(it) == it["desc"] = Absent /\ it["qty"] = Absent /\ it["unit"] = Absent

\* C8: an item under the names description/quantity/price and the item with
\* the same values under desc/qty/unit are normalized by generate_pdf_bytes to
\* the same item: description, quantity, unit price and line total.
C8_AliasesNormalizeAlike ==
    (fn = "generate_pdf_bytes" /\ pc = "gpb_totals") =>
        \A i \in 1..Len(invoice_data.items) :
            UsesFirstNames(invoice_data.items[i]) =>
                /\ ItemTotal(AsAlias(invoice_data.items[i])).ok
                /\ NormalizeItem(AsAlias(invoice_data.items[i])) = items[i]

\* The same item once under each naming, normalized to one item.
C8_Witness ==
    /\ fn = "generate_pdf_bytes" /\ pc = "gpb_totals"
    /\ invoice_data.items = <<ItemPlainOld, ItemPlainNew>>
    /\ items[1] = items[2]
    /\ items[1].qty = PyInt(200)
    /\ items[1].total = PyFloat(10000)

\* A text that float() does not take.
Unparseable(v) == v.k = "str" /\ v.s # <<>> /\ ~ParseFloat(v.s).ok

\* C9: a line item whose quantity, unit price or total is no number does not
\* abort generate_pdf_bytes: the call still returns bytes.
C9_UnparseableItemDoesNotAbort ==
    (/\ fn = "generate_pdf_bytes" /\ pc = "done"
     /\ \E i \in 1..Len(invoice_data.items) :
            \/ Unparseable(ItemQty(invoice_data.items[i]))
            \/ Unparseable(ItemUnit(invoice_data.items[i]))
            \/ Unparseable(invoice_data.items[i]["total"]))
        => result.kind = "bytes"

\* Zero for a field that is absent, null, empty or no number, and the number
\* it spells otherwise.
ZeroOrParsed(v) ==
    IF v \in {Absent, None, PyStr(<<>>)} THEN 0
    ELSE IF IsNum(v) THEN v.n
    ELSE IF v.k = "str" /\ ParseFloat(v.s).ok THEN ParseFloat(v.s).v
    ELSE 0

\* C10: in generate_pdf_bytes the tax is zero when the record's tax is absent,
\* null, empty or no number and the parsed number otherwise, and so is the
\* discount; each depends on its own field only.
C10_TaxAndDiscountDefaultToZero ==
    (fn = "generate_pdf_bytes" /\ pc = "gpb_elements") =>
        /\ tax = ZeroOrParsed(invoice_data.tax)
        /\ discount = ZeroOrParsed(invoice_data.discount)

\* A tax that is no number next to a discount spelled as a number in text.
C10_Witness ==
    /\ fn = "generate_pdf_bytes" /\ pc = "gpb_elements"
    /\ invoice_data.tax = PyStr(s_abc)
    /\ invoice_data.discount = PyStr(s_2_50)
    /\ tax = 0
    /\ discount = 250

\* A call of either copy of _shape_text_for_pdf has returned or raised.
ShapeCalled ==
    pc = "done" /\ fn \in {"app._shape_text_for_pdf", "pdf_utils._shape_text_for_pdf"}

\* What str() gives for the values of ShapeInputs that are no strings.
StrTable ==
    {<<PyInt(200), <<"2">>>>, <<PyInt(-300), <<"-", "3">>>>,
     <<PyFloat(5000), <<"5", "0", ".", "0">>>>,
     <<PyFloat(1250), <<"1", "2", ".", "5">>>>,
     <<None, <<"N", "o", "n", "e">>>>}

\* C11: with rtl false both copies of _shape_text_for_pdf return the string
\* form of their input, unshaped: a string as it is, a number or None as
\* str() writes it, whether or not the shaping libraries are installed.
C11_ShapeWithoutRtlIsStr ==
    (ShapeCalled /\ ~shape_arg.rtl) =>
        /\ shape_ret.ok
        /\ shape_ret.text.shaped = 0
        /\ (shape_arg.text.k = "str" => shape_ret.text.chars = shape_arg.text.s)
        /\ (shape_arg.text.k # "str" =>
               <<shape_arg.text, shape_ret.text.chars>> \in StrTable)

\* A float given to the copy of app.py with the shaping libraries installed.
C11_Witness ==
    /\ pc = "done" /\ fn = "app._shape_text_for_pdf"
    /\ has_shaping /\ ~shape_arg.rtl
    /\ shape_arg.text = PyFloat(5000)
    /\ shape_ret.text = Text(<<"5", "0", ".", "0">>)

\* C12: with rtl true and the reshaping or reordering unavailable, or the
\* shaping call failing, both copies of _shape_text_for_pdf return the text
\* unchanged and do not raise.
C12_ShapeWithoutCapabilityGivesTextBack ==
    (ShapeCalled /\ shape_arg.rtl /\ (~has_shaping \/ shape_arg.fails)) =>
        /\ shape_ret.ok
        /\ shape_ret.text = Text(Str(shape_arg.text))

(* ------------------------------- titles ------------------------------- *)

\* The title text of the rendered document.
HasTitle == HasBlock("title") \/ HasBlock("title_fallback")
TitleShown ==
    IF HasBlock("title") THEN BlockTagged("title").rows[1].text
    ELSE BlockTagged("title_fallback").rows[1].text

\* The default titles of the two languages.
DefaultTitles == {s_Invoice, s_Invoice_ar}

\* C13: for a record with a non-empty document type the title of the
\* rendered document is derived from that type in both languages, in
\* generate_pdf_bytes and in generate_professional_pdf: it is never the
\* default title of a language, and an English title is the type itself.
C13_TitleDerivedFromDocumentType ==
    (/\ fn \in {"generate_pdf_bytes", "generate_professional_pdf"}
     /\ HasTitle
     /\ Truthy(Get(invoice_data, "invoice_type")))
        => /\ TitleShown.chars \notin DefaultTitles
           /\ out_lang = "en"
                  => TitleShown.chars = Str(Get(invoice_data, "invoice_type"))

\* The resolved title: the document type, or the default of the language.
ResolvedTitle ==
    IF Truthy(Get(invoice_data, "invoice_type"))
    THEN Str(Get(invoice_data, "invoice_type"))
    ELSE IF out_lang = "ar" THEN s_Invoice_ar ELSE s_Invoice

\* C14: in an Arabic render by generate_pdf_bytes the text in the title
\* banner is the resolved title shaped exactly once; in an English render it
\* is the resolved title, not shaped.
C14_BannerTitleShapedOnce ==
    (fn = "generate_pdf_bytes" /\ HasBlock("title"))
        => BlockTagged("title").rows[1].text =
               shape_text_for_pdf(Text(ResolvedTitle), out_lang = "ar", has_shaping)

(* ------------------------------ currency ------------------------------ *)

\* A value currency() does not parse: no number is left once the markers,
\* the blanks around the rest and the commas are taken away.
CurrencyUnparseable(v) ==
    ~ParseFloat(Replace(Strip(Replace(Replace(Str(v), s_LE), s_EGP)), <<",">>)).ok

\* C15: for a line total that currency() cannot parse as a number, the value
\* text in the total cell of the items table is the string form of that line
\* total, with no character removed.
C15_UnparseableValuePassesUnchanged ==
    (fn = "generate_pdf_bytes" /\ HasBlock("items_table"))
        => \A i \in 1..Len(items) :
               CurrencyUnparseable(items[i].total)
                   => BlockTagged("items_table").rows[i].total.value.chars
                          = Str(items[i].total)

(* -------------------------------- fonts ------------------------------- *)

ImportFailed ==
    /\ pc = "done"
    /\ \/ fn = "generate_pdf_bytes" /\ font = NoFont
       \/ fn = "generate_professional_pdf" /\ ~reportlab_available

\* C17: when reportlab is unavailable or its import fails, generate_pdf_bytes
\* and generate_professional_pdf raise nothing and return text bytes that
\* hold a dump of the record given.
C17_ImportFailureReturnsDumpOfRecord ==
    ImportFailed => (result.kind = "bytes" /\ result.data = <<invoice_data>>)

\* A call of generate_pdf_bytes that got past the imports and ended with
\* neither a document nor an exception: doc.build raised.
BuildFailed ==
    /\ fn = "generate_pdf_bytes"
    /\ pc = "done"
    /\ font # NoFont
    /\ result.kind = "bytes"
    /\ result.bytes # <<"%PDF">>

\* C18 as stated: when doc.build fails, generate_pdf_bytes returns the very
\* bytes it returns when the toolkit is unavailable.
C18_BuildFailureReturnsImportFallback ==
    BuildFailed =>
        result = [kind |-> "bytes", bytes |-> <<"Invoice (fallback)", "json">>,
                  exc |-> "none", data |-> <<invoice_data>>]

\* C18: when doc.build fails, generate_pdf_bytes raises nothing and returns
\* text bytes that hold the same dump of the record given as the fallback of
\* an unavailable toolkit, under the heading "Invoice (generation failed)".
C18_BuildFailureReturnsDumpOfRecord ==
    /\ (fn = "generate_pdf_bytes" /\ pc = "done"
            /\ font # NoFont /\ HasBlock("footer"))
           => result.kind = "bytes"
    /\ BuildFailed =>
           /\ result.bytes = <<"Invoice (generation failed)", "json">>
           /\ result.data = <<invoice_data>>

\* A failed build of a document that has item rows.
C18_Witness ==
    /\ BuildFailed
    /\ invoice_data.items # <<>>
    /\ HasBlock("items_table")

(* --------------------------- structural steps ------------------------- *)

\* The tag of the block a step adds when it does not fail.
StepTag(step) ==
    CASE step = "items" -> "items_table"
      [] step = "totals" -> "totals_table"
      [] step = "net" -> "net_total"
      [] OTHER -> step

\* A call of generate_pdf_bytes whose structural steps have run.
StepsRan ==
    /\ fn = "generate_pdf_bytes"
    /\ pc \in {"gpb_build", "done"}
    /\ HasBlock("header") \/ HasBlock("header_fallback")

\* C19: each structural step of generate_pdf_bytes is guarded on its own: a
\* step that fails raises nothing out of the call, and every step that does
\* not fail still adds its block to the document.
C19_EachStepGuardedOnItsOwn ==
    StepsRan =>
        /\ result.kind # "exception"
        /\ \A step \in StepSet \ env.failing : HasBlock(StepTag(step))

(* -------------------------------- logo -------------------------------- *)

\* The logo cell of the header table.
LogoCell == BlockTagged("header").rows[1].logo

\* The image file is there and PIL reads its size.
Introspected == env.pil /\ ~env.open_fails

\* C20: the logo cell of the header is always filled: an image of the asked
\* height whose width follows the aspect ratio of the file when the file
\* exists and its size can be read (the asked height itself for an image of
\* height 0), an image 2.5 times as wide as high when the file exists and its
\* size cannot be read, and a spacer of the same height when the file is
\* missing or the image cannot be made.
C20_LogoCellAlwaysFilled ==
    (fn = "generate_pdf_bytes" /\ HasBlock("header")) =>
        /\ LogoCell.height = LogoHeight
        /\ LogoCell.kind = "spacer" <=> (~env.logo_exists \/ env.image_fails)
        /\ (LogoCell.kind = "image" /\ Introspected /\ env.logo_size[2] # 0) =>
               /\ LogoCell.width * env.logo_size[2] <= LogoHeight * env.logo_size[1]
               /\ LogoHeight * env.logo_size[1]
                      < (LogoCell.width + 1) * env.logo_size[2]
        /\ (LogoCell.kind = "image" /\ Introspected /\ env.logo_size[2] = 0) =>
               LogoCell.width = LogoHeight
        /\ (LogoCell.kind = "image" /\ ~Introspected) =>
               2 * LogoCell.width = 5 * LogoHeight

\* A tall logo whose size was read: the cell is narrower than it is high.
C20_Witness ==
    /\ fn = "generate_pdf_bytes"
    /\ HasBlock("header")
    /\ env.logo_exists /\ Introspected /\ ~env.image_fails
    /\ env.logo_size = <<100, 300>>
    /\ LogoCell.kind = "image"
    /\ LogoCell.width = 13

(* --------------------------- invoices table --------------------------- *)

\* A run of auto_cancel_pending_invoices that reached the database.
AutoCancelRuns == auto_cancel_pending_invoices /\ last'.outcome = "ok"

\* An invoice that is Pending and dated more than days days back.
PendingLongerThan(row, t, days) ==
    row.status = "Pending" /\ t - row.invoice_date > days

\* C24: when auto_cancel_pending_invoices(days) runs, an invoice's status
\* changes if and only if it was Pending and had been pending for more than
\* days days; such an invoice becomes Cancelled, and every other invoice
\* keeps its status and its updated_at.
C24_AutoCancelChangesOnlyOldPending ==
    [][AutoCancelRuns =>
          \A i \in 1..Len(invoices) :
              IF PendingLongerThan(invoices[i], now, last'.days)
              THEN invoices'[i].status = "Cancelled"
              ELSE /\ invoices'[i].status = invoices[i].status
                   /\ invoices'[i].updated_at = invoices[i].updated_at]_vars

\* C25: invoice_age_check_live never raises, also with no database, and a
\* call that repeats the call before it (same days, same reading of the
\* clock, nothing in between) changes no invoice's status or updated_at.
C25_AgeCheckIsSafeToRepeat ==
    [][invoice_age_check_live =>
          /\ last'.outcome = "ok"
          /\ last'.again =>
                 /\ Len(invoices') = Len(invoices)
                 /\ \A i \in 1..Len(invoices) :
                        /\ invoices'[i].status = invoices[i].status
                        /\ invoices'[i].updated_at = invoices[i].updated_at]_vars

\* A repeated age check whose first call cancelled both invoices.
C25_Witness ==
    /\ last.op = "invoice_age_check_live"
    /\ last.again
    /\ last.changed_before = 2
    /\ last.changed = 0

\* The total an invoice of these items is to store: per item its total, or
\* quantity times price when no total is supplied.
ExpectedAmount(it) ==
    IF it["total"] \in {Absent, None} THEN Mul(it["quantity"].n, it["price"].n)
    ELSE it["total"].n
ExpectedTotal(its) ==
    LET S[i \in 0..Len(its)] == IF i = 0 THEN 0 ELSE S[i - 1] + ExpectedAmount(its[i])
    IN  S[Len(its)]

\* C27: an invoice created by create_invoice, by POST /api/invoices or by
\* create_invoice_db starts Pending and stores the sum over its items of the
\* item's total, or of quantity times price where no total is supplied.
C27_NewInvoiceIsPendingWithItemSum ==
    (last.op \in {"create_invoice", "create_new_invoice", "create_invoice_db"}
         /\ last.outcome = "ok")
        => /\ invoices[last.id].status = "Pending"
           /\ invoices[last.id].total = ExpectedTotal(last.given)

\* C28: every invoice's status is Pending, Paid or Cancelled; a status update
\* of an invoice with another value is rejected and changes no row, and the
\* PATCH endpoint answers it with 400.
C28_OnlyKnownStatuses ==
    /\ \A i \in 1..Len(invoices) : invoices[i].status \in Statuses
    /\ (last.op \in {"update_invoice_status", "update_status"}
            /\ last.status \notin Statuses /\ last.id <= Len(invoices))
           => /\ last.outcome = "raised"
              /\ last.changed = 0
              /\ last.op = "update_status" => last.http = 400

(* ---------------------------- clients table --------------------------- *)

\* C26: a client creation with a non-empty email that a row already has
\* returns that row's id and inserts nothing; no two rows share an email;
\* a creation without an email (None or "") adds a row of its own.
C26_ClientCreatedOrExistingReturned ==
    /\ \A i, j \in 1..Len(clients) :
           (i # j /\ clients[i].email \notin {"NULL", ""})
               => clients[i].email # clients[j].email
    /\ (client_last.op # "none" /\ client_last.email \notin {"NULL", ""}
            /\ RowsWithEmail(client_last.before, client_last.email) # {})
           => /\ client_last.outcome = "existing"
              /\ client_last.id \in RowsWithEmail(client_last.before, client_last.email)
              /\ clients = client_last.before
    /\ (client_last.op # "none" /\ client_last.email \in {"NULL", ""})
           => /\ client_last.outcome = "created"
              /\ client_last.id = Len(client_last.before) + 1
              /\ clients = Append(client_last.before,
                                  [name |-> client_last.name,
                                   email |-> client_last.email])

(* ------------------------------- canvas ------------------------------- *)

\* C29: draw_outer_and_watermark returns with the canvas state stack at the
\* depth it had on entry, also when a step of the watermark drawing raised
\* and the exception was swallowed.
C29_StateStackBalanced ==
    (canvas.op = "draw_outer_and_watermark" /\ canvas.pc = "done")
        => canvas.depth = canvas.entry

\* C30: generate_pdf draws every item row once, in input order, at 60 points
\* or more above the page bottom; a row is on the next page exactly when its
\* position on the page of the row before would be below 60; the Total line
\* is on the page of the last item row.
C30_RowsOnceInOrderTotalWithLastRow ==
    (canvas.op = "generate_pdf" /\ canvas.pc = "done")
        => /\ Len(canvas.rows) = canvas.n
           /\ \A k \in 1..Len(canvas.rows) :
                  /\ canvas.rows[k].idx = k
                  /\ canvas.rows[k].y >= BottomLimit
                  /\ k < Len(canvas.rows) =>
                         canvas.rows[k + 1].page =
                             canvas.rows[k].page
                                 + (IF canvas.rows[k].y - RowStep < BottomLimit
                                    THEN 1 ELSE 0)
           /\ canvas.n > 0 => canvas.total.page = canvas.rows[canvas.n].page

(* ------------------------------- labels ------------------------------- *)

\* The English literals of the static labels of generate_pdf_bytes.
EnglishLabels ==
    {"Client", "Date", "Sub-Total:", "Sales (18%):", "Discount (0%):",
     "NET TOTAL:", "THE SELLER", "Signature"}

\* The blocks whose rows carry a static label.
LabelledTags == {"client", "totals_table", "net_total", "seller"}

\* C22: every static label has an English and an Arabic literal; an Arabic
\* render shows the Arabic literal, passed through the shaping adapter, and
\* an English render shows the English literal, unshaped.
C22_LabelsInTheLanguageOfTheRender ==
    fn = "generate_pdf_bytes" =>
        \A i \in 1..Len(elements) :
            elements[i].tag \in LabelledTags =>
                \A r \in 1..Len(elements[i].rows) :
                    IF out_lang = "ar"
                    THEN /\ elements[i].rows[r].label.chars[1] \notin EnglishLabels
                         /\ elements[i].rows[r].label.shaped
                                = (IF has_shaping THEN 1 ELSE 0)
                    ELSE /\ elements[i].rows[r].label.chars[1] \in EnglishLabels
                         /\ elements[i].rows[r].label.shaped = 0

(* ----------------------- calls side by side ------------------------- *)

\* The registry after the registrations of one call that runs alone.
AloneRegistry(names) ==
    LET G[i \in 0..Len(names)] ==
            IF i = 0 THEN [n \in {} |-> ""]
            ELSE registerFont(G[i - 1], names[i], FontFile(names[i]))
    IN  G[Len(names)]

\* What a call of this record and language gives when it runs alone.
Alone(d, lang) ==
    [font |-> ChooseFont(env, lang),
     totals |-> CallTotals(d),
     elements |-> CallElements(d, lang, ChooseFont(env, lang), env),
     used |-> Resolve(IF env.register_fails THEN [n \in {} |-> ""]
                      ELSE AloneRegistry(RegisterNames(env, lang)),
                      ChooseFont(env, lang))]

\* What the call c gave.
Gave(c) ==
    [font |-> c.font, totals |-> c.totals, elements |-> c.elements,
     used |-> c.used]

====
